---------------------------- MODULE Spec2Model ----------------------------
(***************************************************************************)
(* A model of the RTF sanitizer: simplify_rtf.js (the current revision is  *)
(* src/unnamed/part_003) and batch_simplify_rtf.js.                        *)
(*                                                                         *)
(* Text is modelled as it is in the program: a string is a sequence of     *)
(* UTF-16 code units (naturals), indexed from 0 through At and Slice as    *)
(* the JavaScript source indexes it.  A regular expression of the source   *)
(* is an operator that computes the same match.                            *)
(***************************************************************************)
EXTENDS Integers, Sequences, FiniteSets, TLC

(***************************************************************************)
(* Characters and strings                                                  *)
(***************************************************************************)

\* The printable ASCII characters, code 32 (space) to 126 (~), in code order
\* (code 96, the grave accent, is spelled by name).
AsciiTable ==
  << " ", "!", "\"", "#", "$", "%", "&", "'", "(", ")", "*", "+", ",", "-", ".", "/",
     "0", "1", "2", "3", "4", "5", "6", "7", "8", "9", ":", ";", "<", "=", ">", "?",
     "@", "A", "B", "C", "D", "E", "F", "G", "H", "I", "J", "K", "L", "M", "N", "O",
     "P", "Q", "R", "S", "T", "U", "V", "W", "X", "Y", "Z", "[", "\\", "]", "^", "_",
     "grave", "a", "b", "c", "d", "e", "f", "g", "h", "i", "j", "k", "l", "m", "n", "o",
     "p", "q", "r", "s", "t", "u", "v", "w", "x", "y", "z", "{", "|", "}", "~" >>

\* The code unit of a printable ASCII character.
Ord(c) == 31 + (CHOOSE k \in 1..Len(AsciiTable) : AsciiTable[k] = c)

\* The string (sequence of code units) spelled by a tuple of characters.
Str(t) == [k \in 1..Len(t) |-> Ord(t[k])]

Min(a, b) == IF a < b THEN a ELSE b
Max(a, b) == IF a > b THEN a ELSE b

\* s[i] of the source: the code unit at 0-based index i, -1 for undefined.
At(s, i) == IF i >= 0 /\ i < Len(s) THEN s[i + 1] ELSE -1

\* s.slice(a, b) of the source, 0-based, end exclusive, clipped to the string.
Slice(s, a, b) == SubSeq(s, Max(a, 0) + 1, Min(b, Len(s)))

\* s.slice(a)
SliceFrom(s, a) == Slice(s, a, Len(s))

\* s.startsWith(p, i)
StartsWithAt(s, p, i) == i >= 0 /\ i + Len(p) <= Len(s) /\ Slice(s, i, i + Len(p)) = p

\* s.indexOf(p): the first index at which p occurs, -1 if none.
IndexOf(s, p) ==
  IF \E i \in 0..Len(s) : StartsWithAt(s, p, i)
  THEN CHOOSE i \in 0..Len(s) :
         StartsWithAt(s, p, i) /\ \A j \in 0..(i - 1) : ~StartsWithAt(s, p, j)
  ELSE -1

chBackslash == Ord("\\")
chOpen      == Ord("{")
chClose     == Ord("}")
chSpace     == Ord(" ")
chMinus     == Ord("-")
chQuestion  == Ord("?")
chQuote     == Ord("'")
chStar      == Ord("*")
chDot       == Ord(".")
chZero      == Ord("0")

\* The character classes of the source's regular expressions.
IsUpper(c)    == c >= Ord("A") /\ c <= Ord("Z")
IsLower(c)    == c >= Ord("a") /\ c <= Ord("z")
IsLetter(c)   == IsUpper(c) \/ IsLower(c)                       \* [a-zA-Z]
IsDigit(c)    == c >= Ord("0") /\ c <= Ord("9")                 \* [0-9], \d
IsWordChar(c) == IsLetter(c) \/ IsDigit(c) \/ c = Ord("_")      \* \w
IsHexDigit(c) == IsDigit(c) \/ (c >= Ord("a") /\ c <= Ord("f"))
                            \/ (c >= Ord("A") /\ c <= Ord("F")) \* [0-9a-fA-F]
\* \s: tab, line feed, vertical tab, form feed, carriage return, space,
\* no-break space, and the other Unicode spaces a code unit can hold.
IsWhite(c)    == c \in {9, 10, 11, 12, 13, 32, 160, 5760, 8232, 8233, 8239, 8287, 12288, 65279}
                 \/ (c >= 8192 /\ c <= 8202)
IsPunct(c)    == c \in {Ord(","), Ord("."), Ord(";"), Ord(":")}  \* [,.;:]

\* String.prototype.toLowerCase / toUpperCase on one ASCII code unit.
LowerChar(c) == IF IsUpper(c) THEN c + 32 ELSE c
UpperChar(c) == IF IsLower(c) THEN c - 32 ELSE c
toLowerCase(s) == [k \in 1..Len(s) |-> LowerChar(s[k])]
toUpperCase(s) == [k \in 1..Len(s) |-> UpperChar(s[k])]

\* The value of one decimal or hexadecimal digit.
DigitVal(c) ==
  IF IsDigit(c) THEN c - Ord("0")
  ELSE IF IsLower(c) THEN c - Ord("a") + 10
  ELSE c - Ord("A") + 10

\* parseInt(num, base) of a non-empty digit string.
RECURSIVE parseInt(_, _)
parseInt(num, base) ==
  IF num = << >> THEN 0
  ELSE parseInt(SubSeq(num, 1, Len(num) - 1), base) * base + DigitVal(num[Len(num)])

\* The index after the run of letters that starts at i: the loops
\* while (i < s.length && /[a-zA-Z]/.test(s[i])) i++.
RECURSIVE LettersEnd(_, _)
LettersEnd(s, i) ==
  IF i < Len(s) /\ IsLetter(At(s, i)) THEN LettersEnd(s, i + 1) ELSE i

\* The index after the run of digits that starts at i.
RECURSIVE DigitsEnd(_, _)
DigitsEnd(s, i) ==
  IF i < Len(s) /\ IsDigit(At(s, i)) THEN DigitsEnd(s, i + 1) ELSE i

\* s.trim()
RECURSIVE TrimLeft(_)
TrimLeft(s) ==
  IF s # << >> /\ IsWhite(s[1]) THEN TrimLeft(Tail(s)) ELSE s
RECURSIVE TrimRight(_)
TrimRight(s) ==
  IF s # << >> /\ IsWhite(s[Len(s)]) THEN TrimRight(SubSeq(s, 1, Len(s) - 1)) ELSE s
Trim(s) == TrimRight(TrimLeft(s))

\* s.replace(/[\n\r\t]+/g, '')
RECURSIVE DropLineChars(_)
DropLineChars(s) ==
  IF s = << >> THEN << >>
  ELSE IF s[1] \in {9, 10, 13} THEN DropLineChars(Tail(s))
  ELSE <<s[1]>> \o DropLineChars(Tail(s))

\* s.replace(/[^\x20-\x7E]/g, '')
RECURSIVE DropNonPrintable(_)
DropNonPrintable(s) ==
  IF s = << >> THEN << >>
  ELSE IF s[1] < 32 \/ s[1] > 126 THEN DropNonPrintable(Tail(s))
  ELSE <<s[1]>> \o DropNonPrintable(Tail(s))

\* s.replace(/[^\x00-\x7F]/g, '')
RECURSIVE DropNonAscii(_)
DropNonAscii(s) ==
  IF s = << >> THEN << >>
  ELSE IF s[1] > 127 THEN DropNonAscii(Tail(s))
  ELSE <<s[1]>> \o DropNonAscii(Tail(s))

\* s.replace(/[ ]{2,}/g, ' '): every run of two or more spaces becomes one.
RECURSIVE CollapseSpaces(_)
CollapseSpaces(s) ==
  IF s = << >> THEN << >>
  ELSE IF s[1] = chSpace /\ Len(s) >= 2 /\ s[2] = chSpace THEN CollapseSpaces(Tail(s))
  ELSE <<s[1]>> \o CollapseSpaces(Tail(s))

(***************************************************************************)
(* decodeUnicode                                                           *)
(***************************************************************************)

\* decodeUnicode without line 59: a negative n is not brought into range.
decodeUnicodeNoWrap(n) ==
  IF n \in {8220, 8221} THEN <<34>>
  ELSE IF n \in {8216, 8217} THEN <<39>>
  ELSE IF n \in {8211, 8212} THEN <<45>>
  ELSE IF n >= 0 /\ n < 128 THEN <<n>>
  ELSE << >>

\* Convert an RTF \uN code point to ASCII: the string '' or one character.
decodeUnicode(n) ==
  LET code == IF n < 0 THEN n + 65536 ELSE n
  IN  IF code = 8220 \/ code = 8221 THEN <<Ord("\"")>>
      ELSE IF code = 8216 \/ code = 8217 THEN <<Ord("'")>>
      ELSE IF code = 8211 \/ code = 8212 THEN <<Ord("-")>>
      ELSE IF code >= 0 /\ code < 128 THEN <<code>>
      ELSE << >>

(***************************************************************************)
(* sanitizeRtfFragment                                                     *)
(***************************************************************************)

\* The bold-span markers '[[B_ON]]' and '[[B_OFF]]'.
B_ON  == Str(<<"[", "[", "B", "_", "O", "N", "]", "]">>)
B_OFF == Str(<<"[", "[", "B", "_", "O", "F", "F", "]", "]">>)
Marker(on) == IF on THEN B_ON ELSE B_OFF

\* The scanner's locals at the top of its while loop.
SanStart == [i |-> 0, bold |-> FALSE, stack |-> << >>, out |-> << >>]

\* Which branch of the loop body the character at st.i takes.
SanKind(f, st) ==
  LET ch   == At(f, st.i)
      next == At(f, st.i + 1)
      hex  == Slice(f, st.i + 2, st.i + 4)
  IN  IF ch = chOpen THEN "open"
      ELSE IF ch = chClose THEN "close"
      ELSE IF ch # chBackslash THEN "copy"
      ELSE IF next \in {chBackslash, chOpen, chClose} THEN "literal"
      ELSE IF next = Ord("u") THEN "unicode"
      ELSE IF next = chQuote /\ Len(hex) = 2 /\ IsHexDigit(hex[1]) /\ IsHexDigit(hex[2])
        THEN "hex"
      \* /[a-zA-Z]/.test(next): an undefined next is tested as the text
      \* 'undefined', which has letters.
      ELSE IF IsLetter(next) \/ next = -1 THEN "word"
      ELSE "skip"

\* '{': push the bold state.
SanOpen(f, st) == [st EXCEPT !.stack = Append(@, st.bold), !.i = @ + 1]

\* SanClose popping the stack without restoring the bold state.
SanCloseKeepsBold(f, st) ==
  LET n == Len(st.stack)
  IN  [st EXCEPT !.i = @ + 1,
                 !.stack = IF n > 0 THEN SubSeq(st.stack, 1, n - 1) ELSE << >>]

\* '}': pop the bold state (false on an empty stack), mark a change.
SanClose(f, st) ==
  LET n    == Len(st.stack)
      prev == IF n > 0 THEN st.stack[n] ELSE FALSE
  IN  [i     |-> st.i + 1,
       bold  |-> prev,
       stack |-> IF n > 0 THEN SubSeq(st.stack, 1, n - 1) ELSE << >>,
       out   |-> IF prev # st.bold THEN st.out \o Marker(prev) ELSE st.out]

\* '\\', '\{', '\}': the literal character.
SanLiteral(f, st) == [st EXCEPT !.out = @ \o <<At(f, st.i + 1)>>, !.i = @ + 2]

\* '\u': sign, digits, decodeUnicode, then an optional '?' and an optional ' '.
SanUnicode(f, st) ==
  LET i1   == st.i + 2
      neg  == At(f, i1) = chMinus
      i2   == IF neg THEN i1 + 1 ELSE i1
      i3   == DigitsEnd(f, i2)
      num  == Slice(f, i2, i3)
      code == (IF neg THEN -1 ELSE 1) * parseInt(num, 10)
      i4   == IF At(f, i3) = chQuestion THEN i3 + 1 ELSE i3
      i5   == IF At(f, i4) = chSpace THEN i4 + 1 ELSE i4
  IN  [st EXCEPT !.out = IF num # << >> THEN @ \o decodeUnicode(code) ELSE @,
                 !.i = i5]

\* \'hh: the character of that byte.
SanHex(f, st) ==
  [st EXCEPT !.out = @ \o <<parseInt(Slice(f, st.i + 2, st.i + 4), 16)>>, !.i = @ + 4]

\* SanWord taking every \b, whatever its parameter, as bold-on.
SanWordZeroOn(f, st) ==
  LET i2 == LettersEnd(f, st.i + 1)
      i3 == IF At(f, i2) = chMinus THEN i2 + 1 ELSE i2
      i4 == DigitsEnd(f, i3)
      isB == toLowerCase(Slice(f, st.i + 1, i2)) = <<Ord("b")>>
  IN  [st EXCEPT !.out  = IF isB /\ ~st.bold THEN @ \o B_ON ELSE @,
                 !.bold = IF isB THEN TRUE ELSE @,
                 !.i    = IF At(f, i4) = chSpace THEN i4 + 1 ELSE i4]

\* Any other control word: letters, sign, digits; \b and \b0 switch bold and
\* mark a change, every other word is dropped; then an optional ' '.
SanWord(f, st) ==
  LET i1   == st.i + 1
      i2   == LettersEnd(f, i1)
      word == Slice(f, i1, i2)
      neg  == At(f, i2) = chMinus
      i3   == IF neg THEN i2 + 1 ELSE i2
      i4   == DigitsEnd(f, i3)
      num  == Slice(f, i3, i4)
      zero == num # << >> /\ parseInt(num, 10) = 0      \* param === 0
      isB  == toLowerCase(word) = <<Ord("b")>>
      nextBold == ~zero
      i5   == IF At(f, i4) = chSpace THEN i4 + 1 ELSE i4
  IN  [st EXCEPT !.out  = IF isB /\ nextBold # st.bold THEN @ \o Marker(nextBold) ELSE @,
                 !.bold = IF isB THEN nextBold ELSE @,
                 !.i    = i5]

\* A backslash before anything else: both characters are dropped.
SanSkip(f, st) == [st EXCEPT !.i = @ + 2]

\* Any other character is copied.
SanCopy(f, st) == [st EXCEPT !.out = @ \o <<At(f, st.i)>>, !.i = @ + 1]

\* One iteration of the while loop.
SanStep(f, st) ==
  LET k == SanKind(f, st)
  IN  CASE k = "open"    -> SanOpen(f, st)
        [] k = "close"   -> SanClose(f, st)
        [] k = "literal" -> SanLiteral(f, st)
        [] k = "unicode" -> SanUnicode(f, st)
        [] k = "hex"     -> SanHex(f, st)
        [] k = "word"    -> SanWord(f, st)
        [] k = "skip"    -> SanSkip(f, st)
        [] OTHER         -> SanCopy(f, st)

\* The while loop, from st to its exit.
RECURSIVE SanLoop(_, _)
SanLoop(f, st) == IF st.i < Len(f) THEN SanLoop(f, SanStep(f, st)) ELSE st

\* s.replace(/\s+([,.;:])/g, '$1'): whitespace right before , . ; : is removed.
RECURSIVE DropSpaceBeforePunct(_)
DropSpaceBeforePunct(s) ==
  IF s = << >> THEN << >>
  ELSE IF ~IsWhite(s[1]) THEN <<s[1]>> \o DropSpaceBeforePunct(Tail(s))
  ELSE LET e == CHOOSE k \in 1..Len(s) :
                  /\ \A j \in 1..k : IsWhite(s[j])
                  /\ (k = Len(s) \/ ~IsWhite(s[k + 1]))
       IN  IF e < Len(s) /\ IsPunct(s[e + 1])
           THEN DropSpaceBeforePunct(SubSeq(s, e + 1, Len(s)))
           ELSE SubSeq(s, 1, e) \o DropSpaceBeforePunct(SubSeq(s, e + 1, Len(s)))

\* SanClosed without line 157: a span still open at the end stays open.
SanClosedLeftOpen(st) == st.out

\* The scanner's exit: a bold span still open is closed.
SanClosed(st) == IF st.bold THEN st.out \o B_OFF ELSE st.out

\* The post-pass with line 162 moved before line 161.
SanPostPassCollapseFirst(out) ==
  Trim(DropSpaceBeforePunct(DropNonPrintable(CollapseSpaces(DropLineChars(out)))))

\* The post-pass over the scanner's output.
SanPostPass(out) ==
  Trim(DropSpaceBeforePunct(CollapseSpaces(DropNonPrintable(DropLineChars(out)))))

\* Reduce an RTF fragment to plain ASCII text, preserving bold spans.
sanitizeRtfFragment(fragment) ==
  SanPostPass(SanClosed(SanLoop(fragment, SanStart)))

(***************************************************************************)
(* stripStarGroups, stripGroupsByKeyword, splitParagraphs                  *)
(***************************************************************************)

\* The group-skipping loop shared by the cleaning passes:
\*   while (i < s.length && depth > 0) { '{': depth++; '}': depth--; i++ }
\* It returns the index it stops at and the depth it stops with.
RECURSIVE SkipGroup(_, _, _)
SkipGroup(s, i, depth) ==
  IF i < Len(s) /\ depth > 0
  THEN SkipGroup(s, i + 1,
                 IF At(s, i) = chOpen THEN depth + 1
                 ELSE IF At(s, i) = chClose THEN depth - 1
                 ELSE depth)
  ELSE [i |-> i, depth |-> depth]

\* Where a starred destination group, '{\*', starts.
StarGroupAt(rtf, i) ==
  At(rtf, i) = chOpen /\ At(rtf, i + 1) = chBackslash /\ At(rtf, i + 2) = chStar

RECURSIVE StripStarFrom(_, _)
StripStarFrom(rtf, i) ==
  IF i >= Len(rtf) THEN << >>
  ELSE IF StarGroupAt(rtf, i) THEN StripStarFrom(rtf, SkipGroup(rtf, i + 3, 1).i)
  ELSE <<At(rtf, i)>> \o StripStarFrom(rtf, i + 1)

\* Remove any starred destination groups (e.g. {\*\themedata ...}).
stripStarGroups(rtf) == StripStarFrom(rtf, 0)

\* The non-content keywords of extractEntriesFromRtf.
stripKeywords ==
  { Str(<<"f", "o", "n", "t", "t", "b", "l">>),
    Str(<<"s", "t", "y", "l", "e", "s", "h", "e", "e", "t">>),
    Str(<<"i", "n", "f", "o">>),
    Str(<<"c", "o", "l", "o", "r", "t", "b", "l">>),
    Str(<<"l", "i", "s", "t", "t", "a", "b", "l", "e">>),
    Str(<<"l", "i", "s", "t", "o", "v", "e", "r", "r", "i", "d", "e", "t", "a", "b", "l", "e">>),
    Str(<<"r", "s", "i", "d", "t", "b", "l">>),
    Str(<<"x", "m", "l", "n", "s", "t", "b", "l">>),
    Str(<<"d", "a", "t", "a", "s", "t", "o", "r", "e">>),
    Str(<<"t", "h", "e", "m", "e", "d", "a", "t", "a">>),
    Str(<<"c", "o", "l", "o", "r", "s", "c", "h", "e", "m", "e", "m", "a", "p", "p", "i", "n", "g">>),
    Str(<<"l", "a", "t", "e", "n", "t", "s", "t", "y", "l", "e", "s">>),
    Str(<<"g", "e", "n", "e", "r", "a", "t", "o", "r">>) }

\* At a '{' followed by '\': the index after the keyword's letters, when the
\* keyword is one to strip; -1 otherwise.
KeywordGroupEnd(rtf, i, keywords) ==
  IF At(rtf, i) = chOpen /\ At(rtf, i + 1) = chBackslash
  THEN LET start == IF At(rtf, i + 2) = chStar THEN i + 3 ELSE i + 2
           j     == LettersEnd(rtf, start)
       IN  IF Slice(rtf, start, j) \in keywords THEN j ELSE -1
  ELSE -1

RECURSIVE StripKeywordFrom(_, _, _)
StripKeywordFrom(rtf, i, keywords) ==
  IF i >= Len(rtf) THEN << >>
  ELSE LET j == KeywordGroupEnd(rtf, i, keywords)
       IN  IF j # -1 THEN StripKeywordFrom(rtf, SkipGroup(rtf, j, 1).i, keywords)
           ELSE <<At(rtf, i)>> \o StripKeywordFrom(rtf, i + 1, keywords)

\* Remove non-content groups (font tables, styles, info, etc) from RTF.
stripGroupsByKeyword(rtf, keywords) == StripKeywordFrom(rtf, 0, keywords)

kwPar == Str(<<"\\", "p", "a", "r">>)

\* \par found at i, whatever follows it.
ParAtAnyPar(rtf, i) == StartsWithAt(rtf, kwPar, i)

\* /\\par(?![a-zA-Z])/ matches at i.
ParAt(rtf, i) == StartsWithAt(rtf, kwPar, i) /\ ~IsLetter(At(rtf, i + 4))

RECURSIVE SplitFrom(_, _, _)
SplitFrom(rtf, last, i) ==
  IF i >= Len(rtf)
  THEN IF last < Len(rtf) THEN <<SliceFrom(rtf, last)>> ELSE << >>
  ELSE IF ParAt(rtf, i) THEN <<Slice(rtf, last, i)>> \o SplitFrom(rtf, i + 4, i + 4)
  ELSE SplitFrom(rtf, last, i + 1)

\* Split RTF into paragraph fragments using \par control words only.
splitParagraphs(rtf) == SplitFrom(rtf, 0, 0)

(***************************************************************************)
(* extractEntriesFromRtf                                                   *)
(***************************************************************************)

kwListtext     == Str(<<"\\", "l", "i", "s", "t", "t", "e", "x", "t">>)
kwListtextOpen == <<chOpen>> \o kwListtext
kwInsrsid      == Str(<<"\\", "i", "n", "s", "r", "s", "i", "d">>)
kwTab          == Str(<<"\\", "t", "a", "b">>)
kwBulletHex    == Str(<<"\\", "'", "b", "7">>) \o kwTab
kwBulletLabel  == Str(<<"\\", "u", "8", "2", "2", "6", "?">>)

\* s.search(re), given the set of indices at which re matches: the first, else -1.
FirstIndex(hits) ==
  IF hits = {} THEN -1 ELSE CHOOSE i \in hits : \A j \in hits : i <= j

\* rtf.replace(/\r\n/g, '\n')
RECURSIVE ReplaceCrLf(_)
ReplaceCrLf(s) ==
  IF s = << >> THEN << >>
  ELSE IF Len(s) >= 2 /\ s[1] = 13 /\ s[2] = 10 THEN <<10>> \o ReplaceCrLf(Tail(Tail(s)))
  ELSE <<s[1]>> \o ReplaceCrLf(Tail(s))

\* para.search(/\\listtext\b/)
ListtextIndex(para) ==
  FirstIndex({i \in 0..Len(para) :
                StartsWithAt(para, kwListtext, i) /\ ~IsWordChar(At(para, i + 9))})

\* para.search(/\\insrsid\d+/)
InsrsidIndex(para) ==
  FirstIndex({i \in 0..Len(para) :
                StartsWithAt(para, kwInsrsid, i) /\ IsDigit(At(para, i + 8))})

\* The part of a paragraph that is sanitized: from its marker-holder group,
\* else from its revision-insertion marker, else all of it.
ContentPara(para) ==
  LET listIdx == ListtextIndex(para)
      insIdx  == InsrsidIndex(para)
  IN  IF listIdx # -1
      THEN SliceFrom(para, IF listIdx > 0 /\ At(para, listIdx - 1) = chOpen
                           THEN listIdx - 1 ELSE listIdx)
      ELSE IF insIdx # -1 THEN SliceFrom(para, insIdx)
      ELSE para

\* The for loop of extractListtextGroup: the index of the '}' at which depth
\* returns to 0, or -1 when the text ends first.
RECURSIVE GroupCloseFrom(_, _, _)
GroupCloseFrom(s, i, depth) ==
  IF i >= Len(s) THEN -1
  ELSE IF At(s, i) = chOpen THEN GroupCloseFrom(s, i + 1, depth + 1)
  ELSE IF At(s, i) = chClose
    THEN IF depth - 1 = 0 THEN i ELSE GroupCloseFrom(s, i + 1, depth - 1)
  ELSE GroupCloseFrom(s, i + 1, depth)

\* The first '{\listtext ...}' group of s, '' when there is none or it never closes.
extractListtextGroup(s) ==
  LET start == IndexOf(s, kwListtextOpen)
      close == IF start = -1 THEN -1 ELSE GroupCloseFrom(s, start, 0)
  IN  IF close = -1 THEN << >> ELSE Slice(s, start, close + 1)

\* /\\b0\b|\\b\b/gi at i: the length of the match (3 for \b0, 2 for \b), else 0.
BoldWordAt(rtf, i) ==
  IF At(rtf, i) = chBackslash /\ LowerChar(At(rtf, i + 1)) = Ord("b")
  THEN IF At(rtf, i + 2) = chZero /\ ~IsWordChar(At(rtf, i + 3)) THEN 3
       ELSE IF ~IsWordChar(At(rtf, i + 2)) THEN 2
       ELSE 0
  ELSE 0

RECURSIVE BoldStateFrom(_, _, _)
BoldStateFrom(rtf, i, on) ==
  IF i >= Len(rtf) THEN on
  ELSE LET m == BoldWordAt(rtf, i)
       IN  IF m = 0 THEN BoldStateFrom(rtf, i + 1, on)
           ELSE BoldStateFrom(rtf, i + m, m = 2)

\* Whether the last \b or \b0 of the text is \b.
boldStateAfterRtf(rtf) == BoldStateFrom(rtf, 0, FALSE)

RECURSIVE RemoveListtextFrom(_, _)
RemoveListtextFrom(s, i) ==
  IF i >= Len(s) THEN << >>
  ELSE IF StartsWithAt(s, kwListtextOpen, i)
    THEN RemoveListtextFrom(s, SkipGroup(s, i + 1, 1).i)
  ELSE <<At(s, i)>> \o RemoveListtextFrom(s, i + 1)

\* removeListtextGroups removing nothing.
removeListtextGroupsKept(s) == s

\* The text with every '{\listtext ...}' group removed.
removeListtextGroups(s) == RemoveListtextFrom(s, 0)

\* /\\'b7\\tab/i.test(g)
HasBulletHex(g) ==
  \E i \in 0..Len(g) : toLowerCase(Slice(g, i, i + Len(kwBulletHex))) = kwBulletHex

\* /\\u(-?\d+)\??\\tab/i at i: [hit, code] with code = parseInt(m[1], 10).
UnicodeTabAt(g, i) ==
  LET neg == At(g, i + 2) = chMinus
      d0  == IF neg THEN i + 3 ELSE i + 2
      d1  == DigitsEnd(g, d0)
      q   == IF At(g, d1) = chQuestion THEN d1 + 1 ELSE d1
  IN  [hit  |-> /\ At(g, i) = chBackslash
                /\ LowerChar(At(g, i + 1)) = Ord("u")
                /\ d1 > d0
                /\ toLowerCase(Slice(g, q, q + 4)) = kwTab,
       code |-> (IF neg THEN -1 ELSE 1) * parseInt(Slice(g, d0, d1), 10)]

\* orderedLabelRe with a single digit in place of [0-9]+.
OrderedLabelAtOneDigit(g, i) ==
  IF (IsDigit(At(g, i)) \/ IsLetter(At(g, i))) /\ At(g, i + 1) = chDot
     /\ toLowerCase(Slice(g, i + 2, i + 6)) = kwTab
    THEN 2
  ELSE 0

\* orderedLabelRe = /([0-9]+\.|[a-z]\.)\\tab/i at i: the length of group 1, else 0.
OrderedLabelAt(g, i) ==
  LET d1 == DigitsEnd(g, i)
  IN  IF d1 > i /\ At(g, d1) = chDot /\ toLowerCase(Slice(g, d1 + 1, d1 + 5)) = kwTab
        THEN d1 + 1 - i
      ELSE IF IsLetter(At(g, i)) /\ At(g, i + 1) = chDot
              /\ toLowerCase(Slice(g, i + 2, i + 6)) = kwTab
        THEN 2
      ELSE 0

NoLabel == [type |-> "none", label |-> << >>]

\* The label of a marker-holder group: bullet, ordered, or none (null).
getListLabel(listtextGroup) ==
  LET u == FirstIndex({i \in 0..Len(listtextGroup) : UnicodeTabAt(listtextGroup, i).hit})
      o == FirstIndex({i \in 0..Len(listtextGroup) : OrderedLabelAt(listtextGroup, i) > 0})
  IN  IF listtextGroup = << >> THEN NoLabel
      ELSE IF HasBulletHex(listtextGroup) THEN [type |-> "bullet", label |-> kwBulletLabel]
      ELSE IF u # -1 /\ UnicodeTabAt(listtextGroup, u).code \in {8226, 9679}
        THEN [type |-> "bullet", label |-> kwBulletLabel]
      ELSE IF o # -1
        THEN [type |-> "ordered",
              label |-> Slice(listtextGroup, o, o + OrderedLabelAt(listtextGroup, o))]
      ELSE NoLabel

\* The fragment handed to sanitizeRtfFragment for a list paragraph: the
\* paragraph without its marker-holder groups, after '[[B_OFF]] ' when the
\* label group leaves bold on.
ListBodyRtf(contentPara) ==
  LET rest == removeListtextGroups(contentPara)
  IN  IF boldStateAfterRtf(extractListtextGroup(contentPara))
      THEN B_OFF \o <<chSpace>> \o rest
      ELSE rest

\* The fragment of a paragraph that is sanitized.
BodyRtf(para) ==
  LET contentPara == ContentPara(para)
  IN  IF getListLabel(extractListtextGroup(contentPara)).type # "none"
      THEN ListBodyRtf(contentPara)
      ELSE contentPara

\* The entries one paragraph contributes: none or one.
ParaEntries(para) ==
  LET labelInfo == getListLabel(extractListtextGroup(ContentPara(para)))
      body      == sanitizeRtfFragment(BodyRtf(para))
  IN  IF Trim(para) = << >> \/ body = << >> THEN << >>
      ELSE IF labelInfo.type # "none"
        THEN << [type |-> "list", label |-> labelInfo.label, body |-> body,
                 listType |-> labelInfo.type] >>
      ELSE << [type |-> "text", label |-> << >>, body |-> body, listType |-> "none"] >>

RECURSIVE EntriesOf(_)
EntriesOf(paras) ==
  IF paras = << >> THEN << >> ELSE ParaEntries(paras[1]) \o EntriesOf(Tail(paras))

\* The cleaned document: without destination groups and non-content groups.
CleanRtf(rtf) == stripGroupsByKeyword(stripStarGroups(ReplaceCrLf(rtf)), stripKeywords)

\* Extract ordered entries (list items and normal text) from RTF.
extractEntriesFromRtf(rtf) == EntriesOf(splitParagraphs(CleanRtf(rtf)))

(***************************************************************************)
(* escapeRtfText                                                           *)
(***************************************************************************)

phBoldOn  == Str(<<"_", "_", "R", "T", "F", "_", "B", "_", "O", "N", "_", "_">>)
phBoldOff == Str(<<"_", "_", "R", "T", "F", "_", "B", "_", "O", "F", "F", "_", "_">>)
cwBold    == Str(<<"\\", "b">>)
cwBoldOff == Str(<<"\\", "b", "0">>)
cwBoldSp    == cwBold \o <<chSpace>>
cwBoldOffSp == cwBoldOff \o <<chSpace>>

\* s.replace(/pat/g, rep) for a literal pattern.
RECURSIVE ReplaceAll(_, _, _)
ReplaceAll(s, pat, rep) ==
  IF s = << >> THEN << >>
  ELSE IF StartsWithAt(s, pat, 0)
    THEN rep \o ReplaceAll(SubSeq(s, Len(pat) + 1, Len(s)), pat, rep)
  ELSE <<s[1]>> \o ReplaceAll(Tail(s), pat, rep)

\* s.replace(/([\\{}])/g, '\\$1'): escape RTF control chars.
RECURSIVE EscapeControlChars(_)
EscapeControlChars(s) ==
  IF s = << >> THEN << >>
  ELSE IF s[1] \in {chBackslash, chOpen, chClose}
    THEN <<chBackslash, s[1]>> \o EscapeControlChars(Tail(s))
  ELSE <<s[1]>> \o EscapeControlChars(Tail(s))

\* The index after the run of whitespace (\s) that starts at i.
RECURSIVE WhiteEnd(_, _)
WhiteEnd(s, i) == IF i < Len(s) /\ IsWhite(At(s, i)) THEN WhiteEnd(s, i + 1) ELSE i

\* s.replace(/cw\s+/g, cw + ' ') for the control word cw: one space after it.
RECURSIVE OneSpaceAfter(_, _, _)
OneSpaceAfter(s, i, cw) ==
  IF i >= Len(s) THEN << >>
  ELSE IF StartsWithAt(s, cw, i) /\ IsWhite(At(s, i + Len(cw)))
    THEN cw \o <<chSpace>> \o OneSpaceAfter(s, WhiteEnd(s, i + Len(cw)), cw)
  ELSE <<At(s, i)>> \o OneSpaceAfter(s, i + 1, cw)

\* s.replace(/\\b(?!0)([^ ])/g, '\\b $1'): bold-on jammed into text.
RECURSIVE UnjamBoldOn(_, _)
UnjamBoldOn(s, i) ==
  IF i >= Len(s) THEN << >>
  ELSE IF StartsWithAt(s, cwBold, i) /\ i + 2 < Len(s)
          /\ At(s, i + 2) # chZero /\ At(s, i + 2) # chSpace
    THEN cwBoldSp \o <<At(s, i + 2)>> \o UnjamBoldOn(s, i + 3)
  ELSE <<At(s, i)>> \o UnjamBoldOn(s, i + 1)

\* s.replace(/\\b0([^ ])/g, '\\b0 $1'): bold-off jammed into text.
RECURSIVE UnjamBoldOff(_, _)
UnjamBoldOff(s, i) ==
  IF i >= Len(s) THEN << >>
  ELSE IF StartsWithAt(s, cwBoldOff, i) /\ i + 3 < Len(s) /\ At(s, i + 3) # chSpace
    THEN cwBoldOffSp \o <<At(s, i + 3)>> \o UnjamBoldOff(s, i + 4)
  ELSE <<At(s, i)>> \o UnjamBoldOff(s, i + 1)

\* s.replace(/\\b0(?=[A-Za-z0-9])/g, '\\b0 ')
RECURSIVE SpaceBoldOffAlnum(_, _)
SpaceBoldOffAlnum(s, i) ==
  IF i >= Len(s) THEN << >>
  ELSE IF StartsWithAt(s, cwBoldOff, i)
          /\ (IsLetter(At(s, i + 3)) \/ IsDigit(At(s, i + 3)))
    THEN cwBoldOffSp \o SpaceBoldOffAlnum(s, i + 3)
  ELSE <<At(s, i)>> \o SpaceBoldOffAlnum(s, i + 1)

\* s.replace(/\\b(?!0)(?=[A-Za-z0-9])/g, '\\b ')
RECURSIVE SpaceBoldOnAlnum(_, _)
SpaceBoldOnAlnum(s, i) ==
  IF i >= Len(s) THEN << >>
  ELSE IF StartsWithAt(s, cwBold, i) /\ At(s, i + 2) # chZero
          /\ (IsLetter(At(s, i + 2)) \/ IsDigit(At(s, i + 2)))
    THEN cwBoldSp \o SpaceBoldOnAlnum(s, i + 2)
  ELSE <<At(s, i)>> \o SpaceBoldOnAlnum(s, i + 1)

\* [,.;:!?]
IsSentencePunct(c) == IsPunct(c) \/ c = Ord("!") \/ c = chQuestion

\* s.replace(/([,.;:!?])cw /g, '$1 cw ') for cw + ' ' given as cwSp: a
\* visible space after punctuation when bold starts or ends.
RECURSIVE SpaceAfterPunct(_, _, _)
SpaceAfterPunct(s, i, cwSp) ==
  IF i >= Len(s) THEN << >>
  ELSE IF IsSentencePunct(At(s, i)) /\ StartsWithAt(s, cwSp, i + 1)
    THEN <<At(s, i), chSpace>> \o cwSp \o SpaceAfterPunct(s, i + 1 + Len(cwSp), cwSp)
  ELSE <<At(s, i)>> \o SpaceAfterPunct(s, i + 1, cwSp)

\* Lines 345-350: protect the markers, uppercase, escape, strip, normalize.
EscapeProtected(s, caps) ==
  LET p1 == ReplaceAll(s, B_ON, phBoldOn)
      p2 == ReplaceAll(p1, B_OFF, phBoldOff)
      p3 == IF caps THEN toUpperCase(p2) ELSE p2
      p4 == EscapeControlChars(p3)
      p5 == DropNonAscii(p4)
  IN  Trim(CollapseSpaces(p5))

\* Lines 351-361: re-insert bold and pad it.
EscapeRestoreBold(s) ==
  LET r1  == ReplaceAll(s, phBoldOn, cwBoldSp)
      r2  == ReplaceAll(r1, phBoldOff, cwBoldOffSp)
      r3  == OneSpaceAfter(r2, 0, cwBoldOff)
      r4  == OneSpaceAfter(r3, 0, cwBold)
      r5  == UnjamBoldOn(r4, 0)
      r6  == UnjamBoldOff(r5, 0)
      r7  == SpaceBoldOffAlnum(r6, 0)
      r8  == SpaceBoldOnAlnum(r7, 0)
      r9  == SpaceAfterPunct(r8, 0, cwBoldOffSp)
      r10 == SpaceAfterPunct(r9, 0, cwBoldSp)
  IN  Trim(CollapseSpaces(r10))

\* Escape text for safe inclusion in RTF output.
escapeRtfText(s, caps) == EscapeRestoreBold(EscapeProtected(s, caps))

(***************************************************************************)
(* readStyles and main of simplify_rtf.js                                  *)
(***************************************************************************)

\* The style table is given by its non-blank lines, each already split at
\* its tabs into [type, name, value].

\* for (const raw of lines): the header_line values, in order.
RECURSIVE HeaderLinesOf(_)
HeaderLinesOf(rows) ==
  IF rows = << >> THEN << >>
  ELSE (IF rows[1].type = "header_line" THEN <<rows[1].value>> ELSE << >>)
       \o HeaderLinesOf(Tail(rows))

\* for (const raw of lines): style[name] = value, a later row replacing an earlier.
StyleOf(rows) ==
  LET isStyle(k) == rows[k].type = "style"
      names      == {rows[k].name : k \in {j \in DOMAIN rows : isStyle(j)}}
      lastOf(n)  == CHOOSE k \in DOMAIN rows :
                      /\ isStyle(k) /\ rows[k].name = n
                      /\ \A j \in DOMAIN rows : (isStyle(j) /\ rows[j].name = n) => j <= k
  IN  [n \in names |-> rows[lastOf(n)].value]

RequiredStyles == {"level1_prefix", "level1_label_sep", "level2_prefix", "level2_label_sep"}

\* readStyles without the header-line test of line 52.
StylesValidKeysOnly(rows) == \A req \in RequiredStyles : req \in DOMAIN StyleOf(rows)

\* Whether readStyles returns (rather than throws) on these rows.
StylesValid(rows) ==
  /\ \A req \in RequiredStyles : req \in DOMAIN StyleOf(rows)
  /\ Len(HeaderLinesOf(rows)) # 0

\* Load header lines and style prefixes from styles.tsv.
readStyles(rows) == [headerLines |-> HeaderLinesOf(rows), style |-> StyleOf(rows)]

\* style.key as a condition: the key is there and its value is not ''.
Truthy(style, key) == key \in DOMAIN style /\ style[key] # << >>

\* '\\pard\\s0 ', the built-in prefix of a text entry.
DefaultNormalPrefix == Str(<<"\\", "p", "a", "r", "d", "\\", "s", "0", " ">>)

isBullet(entry) == entry.listType = "bullet"

\* /^[a-z]\./i.test(entry.label)
HasAlphaLabel(entry) ==
  Len(entry.label) >= 2 /\ IsLetter(entry.label[1]) /\ entry.label[2] = chDot

\* isLevel2 without the label test.
isLevel2BulletOnly(entry) == isBullet(entry)

isLevel2(entry) == isBullet(entry) \/ HasAlphaLabel(entry)

\* The label type main's isBullet and isLevel2 give a list entry.
LabelType(entry) ==
  IF isBullet(entry) THEN "bullet"
  ELSE IF isLevel2(entry) THEN "ordered-alpha"
  ELSE "ordered-numeric"

\* The line main pushes for an entry, as a sequence of no or one line.
EntryLine(entry, style, caps) ==
  LET body == escapeRtfText(entry.body, caps)
  IN  IF body = << >> THEN << >>
      ELSE IF entry.type = "list"
        THEN LET prefix   == IF isLevel2(entry) THEN style["level2_prefix"]
                             ELSE style["level1_prefix"]
                 labelSep == IF isLevel2(entry) THEN style["level2_label_sep"]
                             ELSE style["level1_label_sep"]
                 label    == IF isBullet(entry) /\ Truthy(style, "bullet_label")
                             THEN style["bullet_label"] ELSE entry.label
             IN  <<prefix \o label \o labelSep \o body \o kwPar>>
      ELSE LET normalPrefix == IF Truthy(style, "normal_prefix") THEN style["normal_prefix"]
                               ELSE DefaultNormalPrefix
           IN  <<normalPrefix \o body \o kwPar>>

RECURSIVE EntryLines(_, _, _)
EntryLines(es, style, caps) ==
  IF es = << >> THEN << >>
  ELSE EntryLine(es[1], style, caps) \o EntryLines(Tail(es), style, caps)

\* The array without the closing '}' of line 391.
OutLinesUnclosed(hl, es, style, caps) == hl \o EntryLines(es, style, caps)

\* The array main joins: header lines, entry lines, '}'.
OutLines(hl, es, style, caps) == hl \o EntryLines(es, style, caps) \o <<(<<chClose>>)>>

\* out.join('\n')
RECURSIVE Join(_)
Join(lines) ==
  IF lines = << >> THEN << >>
  ELSE IF Len(lines) = 1 THEN lines[1]
  ELSE lines[1] \o <<10>> \o Join(Tail(lines))

(***************************************************************************)
(* The inputs of a single-file run                                         *)
(***************************************************************************)

\* Bounds of the model.
MaxParas   == 2     \* pieces a document is put together from
MaxHeaders == 2     \* header_line rows of a style table

\* A file that does not exist, a text not read yet.
NoText == <<-1>>

\* The pieces documents are put together from.
DocPieces ==
  { \* {\listtext 1.\tab}Hello World\par
    kwListtextOpen \o Str(<<" ", "1", ".">>) \o kwTab \o <<chClose>>
      \o Str(<<"H", "e", "l", "l", "o", " ", "W", "o", "r", "l", "d">>) \o kwPar,
    \* {\listtext\b a.\tab}Sub item\par
    kwListtextOpen \o Str(<<"\\", "b", " ", "a", ".">>) \o kwTab \o <<chClose>>
      \o Str(<<"S", "u", "b", " ", "i", "t", "e", "m">>) \o kwPar,
    \* {\listtext\f3\'b7\tab}Dot\par
    kwListtextOpen \o Str(<<"\\", "f", "3">>) \o kwBulletHex \o <<chClose>>
      \o Str(<<"D", "o", "t">>) \o kwPar,
    \* a line feed, then Plain {\b text}\par
    <<10>> \o Str(<<"P", "l", "a", "i", "n", " ", "{", "\\", "b", " ", "t", "e", "x", "t", "}">>)
      \o kwPar,
    \* {\*\x y}
    Str(<<"{", "\\", "*", "\\", "x", " ", "y", "}">>),
    \* {\fonttbl z      (a group that is never closed)
    Str(<<"{", "\\", "f", "o", "n", "t", "t", "b", "l", " ", "z">>),
    \* {\*\q            (a destination group that is never closed)
    Str(<<"{", "\\", "*", "\\", "q">>),
    \* {\rtf1
    Str(<<"{", "\\", "r", "t", "f", "1", " ">>),
    \* }
    <<chClose>>,
    \* \par
    kwPar }

RECURSIVE DocsOfLen(_)
DocsOfLen(n) ==
  IF n = 0 THEN {<< >>} ELSE {p \o d : p \in DocPieces, d \in DocsOfLen(n - 1)}

\* The documents a run may read.
Docs == UNION {DocsOfLen(n) : n \in 1..MaxParas}

Row(t, n, v) == [type |-> t, name |-> n, value |-> v]

\* The k-th header line: {\hk
HeaderValue(k) == Str(<<"{", "\\", "h">>) \o <<chZero + k>>

\* The value a style table gives a key.
StyleValue(key) ==
  CASE key = "level1_prefix"    -> Str(<<"\\", "s", "1", " ">>)
    [] key = "level1_label_sep" -> kwTab \o <<chSpace>>
    [] key = "level2_prefix"    -> Str(<<"\\", "s", "2", " ">>) \o kwTab
    [] key = "level2_label_sep" -> kwTab \o kwTab \o <<chSpace>>
    [] key = "bullet_label"     -> Str(<<"\\", "'", "9", "5">>)
    [] key = "normal_prefix"    -> Str(<<"\\", "s", "0", " ">>)

StyleOrder == <<"level1_prefix", "level1_label_sep", "level2_prefix", "level2_label_sep">>
OptionalStyles == <<"bullet_label", "normal_prefix">>

\* A style table: the column-title row, nh header lines, the required keys
\* in req, and the optional keys absent, given as '', or given a value.
StyleTable(req, nh, opt) ==
  <<Row("type", "name", Str(<<"v", "a", "l", "u", "e">>))>>
  \o [k \in 1..nh |-> Row("header_line", "", HeaderValue(k))]
  \o [k \in 1..Len(SelectSeq(StyleOrder, LAMBDA n : n \in req)) |->
        LET n == SelectSeq(StyleOrder, LAMBDA m : m \in req)[k]
        IN  Row("style", n, StyleValue(n))]
  \o (IF opt = "absent" THEN << >>
      ELSE [k \in 1..Len(OptionalStyles) |->
              Row("style", OptionalStyles[k],
                  IF opt = "empty" THEN << >> ELSE StyleValue(OptionalStyles[k]))])

StyleTables ==
  {StyleTable(req, nh, opt) :
     req \in SUBSET RequiredStyles, nh \in 0..MaxHeaders, opt \in {"absent", "empty", "set"}}

(***************************************************************************)
(* State                                                                   *)
(***************************************************************************)

VARIABLES
  pc,          \* where the program is
  args,        \* parseArgs: [in, out, caps]
  styleRows,   \* the content of the styles file
  headerLines, \* readStyles: the header lines
  style,       \* readStyles: the style map
  rtf,         \* main: the text read from args.in, NoText before
  entries,     \* main: the entries extracted
  out,         \* main: the lines pushed
  outFile,     \* the content of the file args.out, NoText while not written
  exitCode,    \* the process's exit code, -1 while it runs
  para,        \* extractEntriesFromRtf: the paragraph of the for loop
  fragment,    \* sanitizeRtfFragment: its argument
  st,          \* sanitizeRtfFragment: the locals i, bold, stack, out
  body,        \* sanitizeRtfFragment: the text returned, NoText before
  prefixed,    \* whether the fragment was given the '[[B_OFF]] ' prefix
  lit,         \* whether the scanner has copied a '[' out of the fragment's own text
  src,         \* extractEntriesFromRtf: its argument rtf
  noStarGroups,\* extractEntriesFromRtf: the text without destination groups
  cleaned,     \* extractEntriesFromRtf: the text without non-content groups
  text,        \* escapeRtfText: its argument s
  escaped,     \* escapeRtfText: the text returned, NoText before
  labelPre,    \* what a marker-holder group holds before its label
  labelText,   \* the label a marker-holder group holds
  listtextGroup, \* extractEntriesFromRtf: the marker-holder group
  labelInfo,   \* extractEntriesFromRtf: getListLabel's result
  labelType,   \* main: the label type of the entry, "" before
  dirEntries,  \* batch: the entries of the directory
  stylesOk,    \* batch: whether the styles file makes a conversion succeed
  files,       \* batch main: the paths listRtfFiles returned
  nextFile,    \* batch main: the index of the for loop
  invoked,     \* batch: the [in, out] pairs simplify_rtf.js was run on
  batchExit,   \* batch: the exit code, -1 while it runs
  code,        \* decodeUnicode: its argument n
  decoded,     \* decodeUnicode: the text returned, NoText before
  normIn,      \* the text a whitespace normalization is applied to
  normKind,    \* which normalization: "post" (lines 159-164), "collapse" (line 350)
  normOut,     \* the results of the normalization applied once, twice
  paras        \* splitParagraphs: the fragments returned

runVars   == <<args, styleRows, headerLines, style, rtf, entries, out, outFile, exitCode>>
sanVars   == <<para, fragment, st, body, prefixed, lit>>
cleanVars == <<src, noStarGroups, cleaned>>
escVars   == <<text, escaped>>
labelVars == <<labelPre, labelText, listtextGroup, labelInfo, labelType>>
batchVars == <<dirEntries, stylesOk, files, nextFile, invoked, batchExit>>
fnVars    == <<code, decoded, normIn, normKind, normOut, paras>>

vars == <<pc, runVars, sanVars, cleanVars, escVars, labelVars, batchVars, fnVars>>

notRunVars   == <<sanVars, cleanVars, escVars, labelVars, batchVars, fnVars>>
notSanVars   == <<runVars, cleanVars, escVars, labelVars, batchVars, fnVars>>
notCleanVars == <<runVars, sanVars, escVars, labelVars, batchVars, fnVars>>
notEscVars   == <<runVars, sanVars, cleanVars, labelVars, batchVars, fnVars>>
notLabelVars == <<runVars, sanVars, cleanVars, escVars, batchVars, fnVars>>
notBatchVars == <<runVars, sanVars, cleanVars, escVars, labelVars, fnVars>>

\* The variables of the other programs, while main of simplify_rtf.js runs.
RunIdle ==
  /\ args = [in |-> "", out |-> "", caps |-> FALSE]
  /\ styleRows = << >>
  /\ headerLines = << >>
  /\ style = << >>
  /\ rtf = NoText
  /\ entries = << >>
  /\ out = << >>
  /\ outFile = NoText
  /\ exitCode = -1

SanIdle ==
  /\ para = << >>
  /\ fragment = << >>
  /\ st = SanStart
  /\ body = NoText
  /\ prefixed = FALSE
  /\ lit = FALSE

CleanIdle ==
  /\ src = << >>
  /\ noStarGroups = NoText
  /\ cleaned = NoText

EscIdle ==
  /\ text = << >>
  /\ escaped = NoText

LabelIdle ==
  /\ labelPre = << >>
  /\ labelText = << >>
  /\ listtextGroup = << >>
  /\ labelInfo = NoLabel
  /\ labelType = ""

BatchIdle ==
  /\ dirEntries = << >>
  /\ stylesOk = FALSE
  /\ files = << >>
  /\ nextFile = 0
  /\ invoked = << >>
  /\ batchExit = -1

FnIdle ==
  /\ code = 0
  /\ decoded = NoText
  /\ normIn = << >>
  /\ normKind = ""
  /\ normOut = << >>
  /\ paras = << >>

(***************************************************************************)
(* main of simplify_rtf.js, one action per statement                       *)
(***************************************************************************)

RunInit ==
  /\ pc = "main"
  /\ args \in [in : {"", "word.rtf"}, out : {"output.rtf"}, caps : BOOLEAN]
                \cup {[in |-> "word.rtf", out |-> "word.rtf", caps |-> FALSE]}
  /\ styleRows \in StyleTables
  /\ headerLines = << >>
  /\ style = << >>
  /\ rtf = NoText
  /\ entries = << >>
  /\ out = << >>
  /\ outFile = NoText
  /\ exitCode = -1
  /\ SanIdle /\ CleanIdle /\ EscIdle /\ LabelIdle /\ BatchIdle /\ FnIdle

\* const args = parseArgs(process.argv)
ParseArgs ==
  /\ pc = "main"
  /\ args.in # "" /\ args.out # ""
  /\ pc' = "parsed"
  /\ UNCHANGED <<runVars, notRunVars>>

\* parseArgs: if (!args.in || !args.out) usage()
UsageExit ==
  /\ pc = "main"
  /\ args.in = "" \/ args.out = ""
  /\ pc' = "exited"
  /\ exitCode' = 1
  /\ UNCHANGED <<args, styleRows, headerLines, style, rtf, entries, out, outFile, notRunVars>>

\* const { headerLines, style } = readStyles(args.styles)
ReadStyles ==
  /\ pc = "parsed"
  /\ StylesValid(styleRows)
  /\ headerLines' = readStyles(styleRows).headerLines
  /\ style' = readStyles(styleRows).style
  /\ pc' = "styled"
  /\ UNCHANGED <<args, styleRows, rtf, entries, out, outFile, exitCode, notRunVars>>

\* readStyles throws; the catch around main() prints and exits with 1.
ReadStylesThrows ==
  /\ pc = "parsed"
  /\ ~StylesValid(styleRows)
  /\ pc' = "exited"
  /\ exitCode' = 1
  /\ UNCHANGED <<args, styleRows, headerLines, style, rtf, entries, out, outFile, notRunVars>>

\* const rtf = fs.readFileSync(args.in, 'utf8')
ReadInput ==
  /\ pc = "styled"
  /\ \E d \in Docs : rtf' = d
  /\ pc' = "read"
  /\ UNCHANGED <<args, styleRows, headerLines, style, entries, out, outFile, exitCode, notRunVars>>

\* const entries = extractEntriesFromRtf(rtf)
Extract ==
  /\ pc = "read"
  /\ entries' = extractEntriesFromRtf(rtf)
  /\ pc' = "extracted"
  /\ UNCHANGED <<args, styleRows, headerLines, style, rtf, out, outFile, exitCode, notRunVars>>

\* The two for loops and out.push('}')
Emit ==
  /\ pc = "extracted"
  /\ out' = OutLines(headerLines, entries, style, args.caps)
  /\ pc' = "emitted"
  /\ UNCHANGED <<args, styleRows, headerLines, style, rtf, entries, outFile, exitCode, notRunVars>>

\* fs.writeFileSync(args.out, out.join('\n')); main returns.
Write ==
  /\ pc = "emitted"
  /\ outFile' = Join(out)
  /\ exitCode' = 0
  /\ pc' = "exited"
  /\ UNCHANGED <<args, styleRows, headerLines, style, rtf, entries, out, notRunVars>>

RunNext ==
  \/ ParseArgs
  \/ UsageExit
  \/ ReadStyles
  \/ ReadStylesThrows
  \/ ReadInput
  \/ Extract
  \/ Emit
  \/ Write

Spec == RunInit /\ [][RunNext]_vars

(***************************************************************************)
(* Properties of a single-file run                                         *)
(***************************************************************************)

\* The run has written its output and returned.
Written == pc = "exited" /\ exitCode = 0

\* The content of the file args.in as the run leaves it: what was read from
\* it, unless writeFileSync (line 392) was given the same path.
InputFileAfter == IF args.out = args.in /\ outFile # NoText THEN outFile ELSE rtf

\* C16: after a conversion that has written its output, the input file holds
\* what it held when it was read.
C16_InputFileUnchanged == Written => InputFileAfter = rtf

\* The style table, read row by row: the rows of a key, the header values.
RowsOf(key) == {k \in DOMAIN styleRows : styleRows[k].type = "style" /\ styleRows[k].name = key}
HeaderRows  == {k \in DOMAIN styleRows : styleRows[k].type = "header_line"}
LacksStyle  == (\E req \in RequiredStyles : RowsOf(req) = {}) \/ HeaderRows = {}

\* A group-skipping scan of stripStarGroups runs off the end of the text.
RECURSIVE StarScanRunsOff(_, _)
StarScanRunsOff(t, i) ==
  IF i >= Len(t) THEN FALSE
  ELSE IF StarGroupAt(t, i)
    THEN SkipGroup(t, i + 3, 1).depth > 0 \/ StarScanRunsOff(t, SkipGroup(t, i + 3, 1).i)
  ELSE StarScanRunsOff(t, i + 1)

\* A group-skipping scan of stripGroupsByKeyword runs off the end of the text.
RECURSIVE KeywordScanRunsOff(_, _)
KeywordScanRunsOff(t, i) ==
  IF i >= Len(t) THEN FALSE
  ELSE LET j == KeywordGroupEnd(t, i, stripKeywords)
       IN  IF j # -1
           THEN SkipGroup(t, j, 1).depth > 0 \/ KeywordScanRunsOff(t, SkipGroup(t, j, 1).i)
           ELSE KeywordScanRunsOff(t, i + 1)

\* The scan of a paragraph's marker-holder group runs off the end of the text.
ListtextScanRunsOff(p) ==
  LET cp    == ContentPara(p)
      start == IndexOf(cp, kwListtextOpen)
  IN  start # -1 /\ GroupCloseFrom(cp, start, 0) = -1

\* Some group-skipping scan of the conversion of d runs off the end.
ScanRunsOff(d) ==
  LET noStar == stripStarGroups(ReplaceCrLf(d))
      ps     == splitParagraphs(stripGroupsByKeyword(noStar, stripKeywords))
  IN  \/ StarScanRunsOff(ReplaceCrLf(d), 0)
      \/ KeywordScanRunsOff(noStar, 0)
      \/ \E k \in DOMAIN ps : ListtextScanRunsOff(ps[k])

\* C5: when a group-skipping scan reaches the end of the text before its
\* depth returns to zero, the conversion fails and no output file is written.
C5_UnclosedGroupFails ==
  (rtf # NoText /\ ScanRunsOff(rtf)) => (outFile = NoText /\ ~Written)

\* C7: a style table that lacks a required key or has no header_line row
\* makes the run fail with an error before the input is read, and the
\* output file is never written.
C7_BadStylesFailBeforeRead ==
  LacksStyle =>
    /\ pc \in {"main", "parsed", "exited"}
    /\ rtf = NoText
    /\ outFile = NoText
    /\ pc = "exited" => exitCode = 1

\* C7's case: the run of a table that lacks level2_prefix alone has failed.
C7_Witness ==
  /\ pc = "exited" /\ exitCode = 1 /\ args.in # ""
  /\ RowsOf("level2_prefix") = {}
  /\ \A req \in RequiredStyles \ {"level2_prefix"} : RowsOf(req) # {}
  /\ HeaderRows # {}

EndsWith(s, suffix) ==
  Len(s) >= Len(suffix) /\ SubSeq(s, Len(s) - Len(suffix) + 1, Len(s)) = suffix

BeginsWith(s, prefix) == Len(s) >= Len(prefix) /\ SubSeq(s, 1, Len(prefix)) = prefix

\* The header values of the style table, in table order.
ConfiguredHeaders ==
  LET hs == SelectSeq(styleRows, LAMBDA r : r.type = "header_line")
  IN  [k \in 1..Len(hs) |-> hs[k].value]

\* The entries whose escaped body is not empty, in order.
Surviving == SelectSeq(entries, LAMBDA e : escapeRtfText(e.body, args.caps) # << >>)

\* C8: the output is the configured header lines, verbatim and in table
\* order, then one line per entry whose escaped body is non-empty, in entry
\* order, each ending with \par, then a single '}'.
C8_OutputShape ==
  (pc = "emitted" \/ Written) =>
    LET n == Len(ConfiguredHeaders)
        m == Len(Surviving)
    IN  /\ Len(out) = n + m + 1
        /\ \A k \in 1..n : out[k] = ConfiguredHeaders[k]
        /\ \A k \in 1..m :
             EndsWith(out[n + k], escapeRtfText(Surviving[k].body, args.caps) \o kwPar)
        /\ out[n + m + 1] = <<chClose>>
        /\ Written => outFile = Join(out)

\* C8's case: two header lines, a list entry and then a text entry, written.
C8_Witness ==
  /\ Written
  /\ Len(headerLines) = 2
  /\ Len(entries) = 2
  /\ entries[1].type = "list" /\ entries[2].type = "text"

\* The kind of a list entry, read off its type and label: bullet, a label
\* beginning with a letter (ordered-alpha), any other label (ordered-numeric).
EntryKind(e) ==
  IF e.listType = "bullet" THEN "bullet"
  ELSE IF e.label # << >> /\ IsLetter(e.label[1]) THEN "ordered-alpha"
  ELSE "ordered-numeric"

\* The line C9 describes for an entry, where Given(key) says when an
\* optional key counts as supplied.
DescribedLine(e, Given(_)) ==
  LET esc == escapeRtfText(e.body, args.caps)
  IN  IF e.type = "text"
      THEN (IF Given("normal_prefix") THEN style["normal_prefix"] ELSE DefaultNormalPrefix)
           \o esc \o kwPar
      ELSE IF EntryKind(e) = "ordered-numeric"
      THEN style["level1_prefix"] \o e.label \o style["level1_label_sep"] \o esc \o kwPar
      ELSE style["level2_prefix"]
           \o (IF EntryKind(e) = "bullet" /\ Given("bullet_label")
               THEN style["bullet_label"] ELSE e.label)
           \o style["level2_label_sep"] \o esc \o kwPar

AllLinesDescribed(Given(_)) ==
  /\ Len(out) = Len(headerLines) + Len(Surviving) + 1
  /\ \A k \in 1..Len(Surviving) :
       out[Len(headerLines) + k] = DescribedLine(Surviving[k], Given)

\* C9 as stated: an optional key counts whenever the table has a row for it.
C9_OptionalKeyWheneverSupplied ==
  pc = "emitted" => AllLinesDescribed(LAMBDA key : RowsOf(key) # {})

\* C9, amended: ordered-alpha and bullet entries use the level 2 prefix and
\* separator, ordered-numeric entries the level 1 ones; bullet_label and
\* normal_prefix are used when the table gives them a non-empty value, the
\* recovered label and the built-in prefix otherwise.
C9_StylePerEntryKind ==
  pc = "emitted" =>
    AllLinesDescribed(LAMBDA key : \E k \in RowsOf(key) :
                                      /\ styleRows[k].value # << >>
                                      /\ \A j \in RowsOf(key) : j <= k)

\* C9's case: a bullet entry and a text entry emitted under a table that
\* sets bullet_label and normal_prefix.
C9_Witness ==
  /\ pc = "emitted"
  /\ Truthy(style, "bullet_label") /\ Truthy(style, "normal_prefix")
  /\ \E k \in DOMAIN entries : EntryKind(entries[k]) = "bullet" /\ entries[k].type = "list"
  /\ \E k \in DOMAIN entries : entries[k].type = "text"

\* {\listtext 1.\tab}Hello World\par
ScenarioPara ==
  kwListtextOpen \o Str(<<" ", "1", ".">>) \o kwTab \o <<chClose>>
    \o Str(<<"H", "e", "l", "l", "o", " ", "W", "o", "r", "l", "d">>) \o kwPar

\* Document text that holds no paragraph text: {\rtf1 , {\*\x y}, }, \par.
QuietPieces ==
  { Str(<<"{", "\\", "r", "t", "f", "1", " ">>),
    Str(<<"{", "\\", "*", "\\", "x", " ", "y", "}">>),
    <<chClose>>,
    kwPar }

RECURSIVE QuietOfLen(_)
QuietOfLen(n) ==
  IF n = 0 THEN {<< >>} ELSE {p \o d : p \in QuietPieces, d \in QuietOfLen(n - 1)}

QuietTexts == UNION {QuietOfLen(n) : n \in 0..MaxParas}

MaxFragPieces == 3     \* pieces a paragraph is put together from

FragPieces ==
  { <<chOpen>>,                                                     \* {
    <<chClose>>,                                                    \* }
    cwBoldSp,                                                       \* \b
    cwBoldOffSp,                                                    \* \b0
    Str(<<"x">>),                                                   \* x
    Str(<<"\\", "{">>),                                             \* \{
    Str(<<"\\", "u", "8", "2", "1", "7", "?">>),                    \* \u8217?  (a right quote)
    Str(<<"\\", "u", "9", "1", "?">>),                              \* \u91?  (a '[')
    Str(<<"\\", "'", "b", "7">>),                                   \* \'b7
    Str(<<"\\", "~">>),                                             \* \~
    kwListtextOpen \o cwBoldSp \o Str(<<"1", ".">>) \o kwTab \o <<chClose>>, \* {\listtext\b 1.\tab}
    B_ON }                                                          \* [[B_ON]] as text

RECURSIVE ParasOfLen(_)
ParasOfLen(n) ==
  IF n = 0 THEN {<< >>} ELSE {p \o d : p \in FragPieces, d \in ParasOfLen(n - 1)}

Paras == UNION {ParasOfLen(n) : n \in 0..MaxFragPieces}

SanInit ==
  /\ pc = "para"
  /\ para \in Paras
  /\ fragment = << >>
  /\ st = SanStart
  /\ body = NoText
  /\ prefixed = FALSE
  /\ lit = FALSE
  /\ RunIdle /\ CleanIdle /\ EscIdle /\ LabelIdle /\ BatchIdle /\ FnIdle

\* if (!para || !para.trim()) continue
SkipBlankPara ==
  /\ pc = "para"
  /\ Trim(para) = << >>
  /\ pc' = "skipped"
  /\ UNCHANGED <<sanVars, notSanVars>>

\* Lines 313-332 and 336: the fragment passed to sanitizeRtfFragment.
PrepareFragment ==
  /\ pc = "para"
  /\ Trim(para) # << >>
  /\ fragment' = BodyRtf(para)
  /\ prefixed' = /\ getListLabel(extractListtextGroup(ContentPara(para))).type # "none"
                 /\ boldStateAfterRtf(extractListtextGroup(ContentPara(para)))
  /\ st' = SanStart
  /\ pc' = "scan"
  /\ UNCHANGED <<para, body, lit, notSanVars>>

\* The text one loop iteration copies to out, markers aside.
CopiedText(f, s) ==
  IF SanKind(f, s) \in {"copy", "literal", "unicode", "hex"}
  THEN SubSeq(SanStep(f, s).out, Len(s.out) + 1, Len(SanStep(f, s).out))
  ELSE << >>

\* The length of the prefix extractEntriesFromRtf put before the fragment.
PrefixLen == IF prefixed THEN Len(B_OFF) + 1 ELSE 0

\* One iteration of the while loop.
ScanStep ==
  /\ pc = "scan"
  /\ st.i < Len(fragment)
  /\ st' = SanStep(fragment, st)
  /\ lit' = (lit \/ (st.i >= PrefixLen
                     /\ \E k \in DOMAIN CopiedText(fragment, st) :
                          CopiedText(fragment, st)[k] = Ord("[")))
  /\ UNCHANGED <<pc, para, fragment, body, prefixed, notSanVars>>

\* The iteration, by the branch it takes.
ScanOpen ==
  /\ SanKind(fragment, st) = "open"
  /\ ScanStep

ScanClose ==
  /\ SanKind(fragment, st) = "close"
  /\ ScanStep

ScanLiteral ==
  /\ SanKind(fragment, st) = "literal"
  /\ ScanStep

ScanUnicode ==
  /\ SanKind(fragment, st) = "unicode"
  /\ ScanStep

ScanHex ==
  /\ SanKind(fragment, st) = "hex"
  /\ ScanStep

ScanWord ==
  /\ SanKind(fragment, st) = "word"
  /\ ScanStep

ScanSkip ==
  /\ SanKind(fragment, st) = "skip"
  /\ ScanStep

ScanCopy ==
  /\ SanKind(fragment, st) = "copy"
  /\ ScanStep

\* The loop's exit, the closing marker and the post-pass: the return.
ScanReturn ==
  /\ pc = "scan"
  /\ st.i >= Len(fragment)
  /\ body' = SanPostPass(SanClosed(st))
  /\ pc' = "sanitized"
  /\ UNCHANGED <<para, fragment, st, prefixed, lit, notSanVars>>

SanNext ==
  \/ SkipBlankPara
  \/ PrepareFragment
  \/ ScanOpen
  \/ ScanClose
  \/ ScanLiteral
  \/ ScanUnicode
  \/ ScanHex
  \/ ScanWord
  \/ ScanSkip
  \/ ScanCopy
  \/ ScanReturn

SpecSanitize == SanInit /\ [][SanNext]_vars

\* The bold-span markers of a text, left to right: TRUE for [[B_ON]].
RECURSIVE MarkersOf(_, _)
MarkersOf(s, i) ==
  IF i >= Len(s) THEN << >>
  ELSE IF StartsWithAt(s, B_ON, i) THEN <<TRUE>> \o MarkersOf(s, i + Len(B_ON))
  ELSE IF StartsWithAt(s, B_OFF, i) THEN <<FALSE>> \o MarkersOf(s, i + Len(B_OFF))
  ELSE MarkersOf(s, i + 1)

\* The markers alternate, starting with [[B_ON]] and ending with [[B_OFF]].
Balanced(s) ==
  LET m == MarkersOf(s, 0)
  IN  Len(m) % 2 = 0 /\ \A k \in DOMAIN m : m[k] = (k % 2 = 1)

MaxCleanPieces == 4     \* pieces a document to clean is put together from

CleanPieces ==
  { Str(<<"{", "\\", "*", "\\", "x", " ">>),        \* {\*\x
    Str(<<"{", "\\", "i", "n", "f", "o", " ">>),    \* {\info
    <<chOpen>>,                                     \* {
    <<chClose>>,                                    \* }
    Str(<<"\\", "}">>),                             \* \}
    Str(<<"\\", "{">>),                             \* \{
    Str(<<"a">>) }                                  \* a

RECURSIVE CleanDocsOfLen(_)
CleanDocsOfLen(n) ==
  IF n = 0 THEN {<< >>} ELSE {p \o d : p \in CleanPieces, d \in CleanDocsOfLen(n - 1)}

CleanDocs == UNION {CleanDocsOfLen(n) : n \in 1..MaxCleanPieces}

CleanInit ==
  /\ pc = "raw"
  /\ src \in CleanDocs
  /\ noStarGroups = NoText
  /\ cleaned = NoText
  /\ RunIdle /\ SanIdle /\ EscIdle /\ LabelIdle /\ BatchIdle /\ FnIdle

\* const noStarGroups = stripStarGroups(rtf.replace(/\r\n/g, '\n'))
StripStar ==
  /\ pc = "raw"
  /\ noStarGroups' = stripStarGroups(ReplaceCrLf(src))
  /\ pc' = "nostar"
  /\ UNCHANGED <<src, cleaned, notCleanVars>>

\* const cleaned = stripGroupsByKeyword(noStarGroups, stripKeywords)
StripKeywords ==
  /\ pc = "nostar"
  /\ cleaned' = stripGroupsByKeyword(noStarGroups, stripKeywords)
  /\ pc' = "cleaned"
  /\ UNCHANGED <<src, noStarGroups, notCleanVars>>

CleanNext ==
  \/ StripStar
  \/ StripKeywords

SpecClean == CleanInit /\ [][CleanNext]_vars

\* The groups of a text are balanced: left to right, with \\, \{ and \} read
\* as escaped characters, the brace depth never goes below zero and is zero
\* at the end.
RECURSIVE BracesBalanced(_, _, _)
BracesBalanced(s, i, depth) ==
  IF i >= Len(s) THEN depth = 0
  ELSE IF At(s, i) = chBackslash /\ At(s, i + 1) \in {chBackslash, chOpen, chClose}
    THEN BracesBalanced(s, i + 2, depth)
  ELSE IF At(s, i) = chOpen THEN BracesBalanced(s, i + 1, depth + 1)
  ELSE IF At(s, i) = chClose THEN depth > 0 /\ BracesBalanced(s, i + 1, depth - 1)
  ELSE BracesBalanced(s, i + 1, depth)

\* C4: the cleaned text of a document with balanced groups has balanced groups.
C4_CleanedBalanced ==
  (pc = "cleaned" /\ BracesBalanced(src, 0, 0)) => BracesBalanced(cleaned, 0, 0)

(***************************************************************************)
(* escapeRtfText on a body                                                 *)
(***************************************************************************)

MaxBodyChars == 4     \* characters of a body

BodyChars == {chBackslash, chOpen, chClose, chSpace, chDot, Ord("a"), Ord("b"), Ord("0")}

Bodies == UNION {[1..n -> BodyChars] : n \in 1..MaxBodyChars}

EscInit ==
  /\ pc = "body"
  /\ text \in Bodies
  /\ escaped = NoText
  /\ RunIdle /\ SanIdle /\ CleanIdle /\ LabelIdle /\ BatchIdle /\ FnIdle

\* const body = escapeRtfText(entry.body, args.caps), with --caps not given
EscapeBody ==
  /\ pc = "body"
  /\ escaped' = escapeRtfText(text, FALSE)
  /\ pc' = "escaped"
  /\ UNCHANGED <<text, notEscVars>>

EscNext ==
  \/ EscapeBody

SpecEscape == EscInit /\ [][EscNext]_vars

\* The three literal-escape rules reversed: \\ to \, \{ to {, \} to }.
RECURSIVE Unescape(_, _)
Unescape(s, i) ==
  IF i >= Len(s) THEN << >>
  ELSE IF At(s, i) = chBackslash /\ At(s, i + 1) \in {chBackslash, chOpen, chClose}
    THEN <<At(s, i + 1)>> \o Unescape(s, i + 2)
  ELSE <<At(s, i)>> \o Unescape(s, i + 1)

\* The text is whitespace-normalized: single spaces, none at either end.
Normalized(s) == Trim(CollapseSpaces(s)) = s

\* C3: reversing the literal-escape rules on the escaped text of a
\* whitespace-normalized ASCII body without markers gives the body back.
C3_EscapeRoundTrip ==
  (pc = "escaped" /\ Normalized(text)) => Unescape(escaped, 0) = text

(***************************************************************************)
(* The label of a marker-holder group                                      *)
(***************************************************************************)

MaxLabelDigits == 2     \* digits of a numeric label

\* What a marker-holder group holds between \listtext and its label.
LabelPres ==
  { <<chSpace>>,                                                          \* a space
    cwBoldSp,                                                             \* \b
    Str(<<"\\", "f", "3", " ">>),                                         \* \f3
    Str(<<"\\", "p", "a", "r", "d", "\\", "p", "l", "a", "i", "n", " ">>),  \* \pard\plain
    Str(<<"\\", "l", "t", "r", "p", "a", "r", " ", "\\", "s", "1", "5", " ">>),  \* \ltrpar \s15
    Str(<<"{", "\\", "f", "1", " ", "x", "}", " ">>) }                    \* {\f1 x}

LabelDigits == {Ord("0"), Ord("1"), Ord("9")}
LabelLetters == {Ord("a"), Ord("b"), Ord("i"), Ord("z"), Ord("A"), Ord("Z")}

\* digits then '.', a single letter then '.'
NumericLabels == {d \o <<chDot>> : d \in UNION {[1..n -> LabelDigits] : n \in 1..MaxLabelDigits}}
AlphaLabels   == {<<c, chDot>> : c \in LabelLetters}

\* {\listtext<pre><label>\tab}Item
LabelPara(pre, label) ==
  kwListtextOpen \o pre \o label \o kwTab \o <<chClose>> \o Str(<<"I", "t", "e", "m">>)

LabelInit ==
  /\ pc = "group"
  /\ labelPre \in LabelPres
  /\ labelText \in NumericLabels \cup AlphaLabels
  /\ listtextGroup = << >>
  /\ labelInfo = NoLabel
  /\ labelType = ""
  /\ RunIdle /\ SanIdle /\ CleanIdle /\ EscIdle /\ BatchIdle /\ FnIdle

\* const listtextGroup = extractListtextGroup(contentPara)
ExtractGroup ==
  /\ pc = "group"
  /\ listtextGroup' = extractListtextGroup(ContentPara(LabelPara(labelPre, labelText)))
  /\ pc' = "grouped"
  /\ UNCHANGED <<labelPre, labelText, labelInfo, labelType, notLabelVars>>

\* const labelInfo = getListLabel(listtextGroup)
GetLabel ==
  /\ pc = "grouped"
  /\ labelInfo' = getListLabel(listtextGroup)
  /\ pc' = "labelled"
  /\ UNCHANGED <<labelPre, labelText, listtextGroup, labelType, notLabelVars>>

\* main, lines 376-377, on the entry pushed with this label.
Classify ==
  /\ pc = "labelled"
  /\ labelType' = IF labelInfo.type = "none" THEN "none"
                  ELSE LabelType([listType |-> labelInfo.type, label |-> labelInfo.label])
  /\ pc' = "classified"
  /\ UNCHANGED <<labelPre, labelText, listtextGroup, labelInfo, notLabelVars>>

LabelNext ==
  \/ ExtractGroup
  \/ GetLabel
  \/ Classify

SpecLabel == LabelInit /\ [][LabelNext]_vars

\* C2: a group whose label is digits, '.', \tab is typed ordered-numeric, one
\* whose label is a single letter, '.', \tab is typed ordered-alpha, and the
\* captured label is the label's text.
C2_OrderedLabelTypes ==
  pc = "classified" =>
    /\ labelInfo.label = labelText
    /\ labelText \in NumericLabels => labelType = "ordered-numeric"
    /\ labelText \in AlphaLabels => labelType = "ordered-alpha"

\* C2's case: the two-digit label 10. after \pard\plain has been classified.
C2_Witness ==
  /\ pc = "classified"
  /\ labelText = Str(<<"1", "0", ".">>)
  /\ labelPre = Str(<<"\\", "p", "a", "r", "d", "\\", "p", "l", "a", "i", "n", " ">>)
  /\ labelType = "ordered-numeric"

(***************************************************************************)
(* batch_simplify_rtf.js                                                   *)
(***************************************************************************)

chSlash == Ord("/")
extRtf == Str(<<".", "r", "t", "f">>)
sfxSanitizedRtf == Str(<<"_", "s", "a", "n", "i", "t", "i", "z", "e", "d", ".", "r", "t", "f">>)
sfxSanitized == Str(<<"_", "s", "a", "n", "i", "t", "i", "z", "e", "d">>)

\* path.join(dir, name)
PathJoin(dir, name) == dir \o <<chSlash>> \o name

\* The index of the last c in s, -1 if there is none.
LastIndexOf(s, c) ==
  LET hits == {i \in 0..(Len(s) - 1) : At(s, i) = c}
  IN IF hits = {} THEN -1 ELSE CHOOSE i \in hits : \A j \in hits : j <= i

\* path.dirname, path.basename and path.extname of a path dir/name
PathDirname(p) == Slice(p, 0, LastIndexOf(p, chSlash))
PathBasename(p) == SliceFrom(p, LastIndexOf(p, chSlash) + 1)
PathExtname(p) ==
  LET b == PathBasename(p)
      d == LastIndexOf(b, chDot)
  IN IF d <= 0 THEN << >> ELSE SliceFrom(b, d)

\* The names listRtfFiles keeps of a directory's entries, from index k on.
RECURSIVE RtfNamesFrom(_, _)
RtfNamesFrom(es, k) ==
  IF k > Len(es) THEN << >>
  ELSE LET e == es[k]
           lower == toLowerCase(e.name)
           keep == /\ e.isFile
                   /\ EndsWith(lower, extRtf)
                   /\ ~EndsWith(lower, sfxSanitizedRtf)
       IN (IF keep THEN <<e.name>> ELSE << >>) \o RtfNamesFrom(es, k + 1)

RECURSIVE JoinAll(_, _, _)
JoinAll(dir, names, k) ==
  IF k > Len(names) THEN << >>
  ELSE <<PathJoin(dir, names[k])>> \o JoinAll(dir, names, k + 1)

listRtfFiles(dir, es) == JoinAll(dir, RtfNamesFrom(es, 1), 1)

\* outputPathFor giving the input path back.
outputPathForInPlace(inputPath) == inputPath

outputPathFor(inputPath) ==
  LET ext == PathExtname(inputPath)
      b == PathBasename(inputPath)
      base == IF ext # << >> /\ EndsWith(b, ext) THEN Slice(b, 0, Len(b) - Len(ext)) ELSE b
  IN PathJoin(PathDirname(inputPath), base \o sfxSanitized \o ext)

\* The exit status of simplify_rtf.js run on a file: 1 when readStyles or
\* readFileSync throws, 0 otherwise.
SimplifyStatus(stylesValid, readable) == IF stylesValid /\ readable THEN 0 ELSE 1

MaxDirEntries == 3     \* entries of the directory

BatchDir == Str(<<"d">>)

EntryNames ==
  { Str(<<"a", ".", "r", "t", "f">>),
    Str(<<"b", ".", "R", "T", "F">>),
    Str(<<"a">>) \o sfxSanitizedRtf,
    Str(<<"c", ".", "t", "x", "t">>),
    extRtf }

\* A directory entry: its name, whether it is a file, whether it can be read.
DirEntries ==
  {e \in [name : EntryNames, isFile : BOOLEAN, readable : BOOLEAN] : e.isFile \/ e.readable}

\* readdirSync's results: entries with different names, in any order.
DirListings ==
  {es \in UNION {[1..n -> DirEntries] : n \in 0..MaxDirEntries} :
     \A i, j \in 1..Len(es) : i # j => es[i].name # es[j].name}

Readable(inputPath) ==
  \E k \in 1..Len(dirEntries) :
    /\ PathJoin(BatchDir, dirEntries[k].name) = inputPath
    /\ dirEntries[k].readable

BatchInit ==
  /\ pc = "batch"
  /\ dirEntries \in DirListings
  /\ stylesOk \in BOOLEAN
  /\ files = << >>
  /\ nextFile = 0
  /\ invoked = << >>
  /\ batchExit = -1
  /\ RunIdle /\ SanIdle /\ CleanIdle /\ EscIdle /\ LabelIdle /\ FnIdle

\* main up to the loop, with files to process
ListFiles ==
  /\ pc = "batch"
  /\ listRtfFiles(BatchDir, dirEntries) # << >>
  /\ files' = listRtfFiles(BatchDir, dirEntries)
  /\ nextFile' = 1
  /\ pc' = "loop"
  /\ UNCHANGED <<dirEntries, stylesOk, invoked, batchExit, notBatchVars>>

\* main up to the loop, with no file: 'No .rtf files to process.'
NoFiles ==
  /\ pc = "batch"
  /\ listRtfFiles(BatchDir, dirEntries) = << >>
  /\ files' = << >>
  /\ batchExit' = 0
  /\ pc' = "done"
  /\ UNCHANGED <<dirEntries, stylesOk, nextFile, invoked, notBatchVars>>

\* One turn of the loop, runSimplify returning
RunSimplify ==
  /\ pc = "loop"
  /\ nextFile <= Len(files)
  /\ SimplifyStatus(stylesOk, Readable(files[nextFile])) = 0
  /\ invoked' = Append(invoked, [in |-> files[nextFile], out |-> outputPathFor(files[nextFile])])
  /\ nextFile' = nextFile + 1
  /\ UNCHANGED <<pc, dirEntries, stylesOk, files, batchExit, notBatchVars>>

\* One turn of the loop, runSimplify throwing: main's caller exits with 1
RunSimplifyThrows ==
  /\ pc = "loop"
  /\ nextFile <= Len(files)
  /\ SimplifyStatus(stylesOk, Readable(files[nextFile])) # 0
  /\ invoked' = Append(invoked, [in |-> files[nextFile], out |-> outputPathFor(files[nextFile])])
  /\ batchExit' = 1
  /\ pc' = "done"
  /\ UNCHANGED <<dirEntries, stylesOk, files, nextFile, notBatchVars>>

\* The loop is over
LoopEnd ==
  /\ pc = "loop"
  /\ nextFile > Len(files)
  /\ batchExit' = 0
  /\ pc' = "done"
  /\ UNCHANGED <<dirEntries, stylesOk, files, nextFile, invoked, notBatchVars>>

BatchNext ==
  \/ ListFiles
  \/ NoFiles
  \/ RunSimplify
  \/ RunSimplifyThrows
  \/ LoopEnd

SpecBatch == BatchInit /\ [][BatchNext]_vars

Invoked(inputPath) == \E k \in 1..Len(invoked) : invoked[k].in = inputPath

\* C6: when the batch run is over, the conversion of every selected document
\* has been invoked, also of those after a document whose conversion failed.
C6_FailureDoesNotAbort ==
  pc = "done" => \A k \in 1..Len(files) : Invoked(files[k])

\* The file names a batch run selects: of regular files, ending in .rtf and
\* not in _sanitized.rtf, the endings compared as CaseOf gives them.
SelectedNames(CaseOf(_)) ==
  {dirEntries[k].name : k \in {j \in 1..Len(dirEntries) :
      /\ dirEntries[j].isFile
      /\ EndsWith(CaseOf(dirEntries[j].name), extRtf)
      /\ ~EndsWith(CaseOf(dirEntries[j].name), sfxSanitizedRtf)}}

\* <base>_sanitized<ext> in the same directory, for a name that ends in an
\* extension of four characters; a name that is only an extension (.rtf) is
\* all base.
SanitizedPathOf(name) ==
  LET n == Len(name)
  IN  IF n > 4
      THEN BatchDir \o <<chSlash>> \o SubSeq(name, 1, n - 4) \o sfxSanitized \o SubSeq(name, n - 3, n)
      ELSE BatchDir \o <<chSlash>> \o name \o sfxSanitized

\* What C15 says, with the endings compared as CaseOf gives them.
BatchSelection(CaseOf(_)) ==
  pc \in {"loop", "done"} =>
    /\ {files[k] : k \in 1..Len(files)} = {BatchDir \o <<chSlash>> \o n : n \in SelectedNames(CaseOf)}
    /\ Len(files) = Cardinality(SelectedNames(CaseOf))
    /\ Len(invoked) <= Len(files)
    /\ \A k \in 1..Len(invoked) :
         /\ invoked[k].in = files[k]
         /\ \E n \in SelectedNames(CaseOf) :
              /\ files[k] = BatchDir \o <<chSlash>> \o n
              /\ invoked[k].out = SanitizedPathOf(n)
         /\ \A j \in 1..Len(files) : invoked[k].out # files[j]
    /\ (pc = "done" /\ batchExit = 0) => Len(invoked) = Len(files)

BoldPres  == { << >>, Str(<<"a", " ">>), Str(<<"a", ".", " ">>), Str(<<"a", ".">>),
               Str(<<"a", ",">>), Str(<<"(">>) }
BoldOns   == { cwBoldSp, Str(<<"\\", "b", "1", " ">>) }
BoldWords == { Str(<<"w">>), Str(<<"W", "1">>), Str(<<"i", "t", ".">>), Str(<<"0">>) }
BoldOffs  == { cwBoldOffSp, cwBoldOff }
BoldPosts == { << >>, Str(<<" ", "x">>), Str(<<",", " ", "x">>), Str(<<".">>),
               Str(<<"x">>), Str(<<" ", "1">>) }

BoldScenarios ==
  [pre : BoldPres, on : BoldOns, word : BoldWords, off : BoldOffs, post : BoldPosts]

BoldFragment(sc) == sc.pre \o sc.on \o sc.word \o sc.off \o sc.post

\* A control word other than \b in a fragment: text, the control word with
\* its parameter and delimiting space, text.
WordPres  == { << >>, Str(<<"a", " ">>), Str(<<"a">>), cwBoldSp \o Str(<<"a">>) }
OtherWords ==
  { Str(<<"\\", "u", "l", " ">>),                                               \* \ul
    Str(<<"\\", "u", "c", "1", " ">>),                                          \* \uc1
    Str(<<"\\", "u", "l", "n", "o", "n", "e", " ">>),                           \* \ulnone
    Str(<<"\\", "f", "s", "2", "4", " ">>),                                     \* \fs24
    Str(<<"\\", "i", "n", "s", "r", "s", "i", "d", "1", "2", "3", " ">>),       \* \insrsid123
    Str(<<"\\", "l", "i", "-", "3", "6", "0", " ">>),                           \* \li-360
    Str(<<"\\", "i", " ">>) }                                                   \* \i
WordPosts == { << >>, Str(<<"x">>), Str(<<" ", "x">>), Str(<<"7">>) }

WordScenarios == [pre : WordPres, cw : OtherWords, post : WordPosts]

WordFragment(sc) == sc.pre \o sc.cw \o sc.post

FragInit ==
  /\ pc = "frag"
  /\ fragment \in {BoldFragment(sc) : sc \in BoldScenarios}
                    \cup {WordFragment(sc) : sc \in WordScenarios}
  /\ para = << >>
  /\ st = SanStart
  /\ body = NoText
  /\ prefixed = FALSE
  /\ lit = FALSE
  /\ text = << >>
  /\ escaped = NoText
  /\ RunIdle /\ CleanIdle /\ LabelIdle /\ BatchIdle /\ FnIdle

fragOther == <<runVars, cleanVars, labelVars, batchVars, fnVars>>

\* const text = sanitizeRtfFragment(contentPara)
SanitizeFragment ==
  /\ pc = "frag"
  /\ body' = sanitizeRtfFragment(fragment)
  /\ pc' = "bodied"
  /\ UNCHANGED <<para, fragment, st, prefixed, lit, text, escaped, fragOther>>

\* const body = escapeRtfText(entry.body, args.caps), with --caps not given
ReemitBody ==
  /\ pc = "bodied"
  /\ body # << >>
  /\ text' = body
  /\ escaped' = escapeRtfText(body, FALSE)
  /\ pc' = "reemitted"
  /\ UNCHANGED <<para, fragment, st, body, prefixed, lit, fragOther>>

FragNext ==
  \/ SanitizeFragment
  \/ ReemitBody

SpecFragment == FragInit /\ [][FragNext]_vars

Contains(s, p) == IndexOf(s, p) # -1

Punctuation == {Ord(","), Ord("."), Ord(";"), Ord(":"), Ord("!"), Ord("?")}

\* How many times a punctuation character is followed by a space.
PunctSpaces(s) ==
  Cardinality({i \in 0..(Len(s) - 2) : At(s, i) \in Punctuation /\ At(s, i + 1) = chSpace})

\* A body without its markers.
RECURSIVE Visible(_, _)
Visible(s, i) ==
  IF i >= Len(s) THEN << >>
  ELSE IF StartsWithAt(s, B_ON, i) THEN Visible(s, i + Len(B_ON))
  ELSE IF StartsWithAt(s, B_OFF, i) THEN Visible(s, i + Len(B_OFF))
  ELSE <<At(s, i)>> \o Visible(s, i + 1)

\* An escaped text as an RTF reader shows it: without \b and \b0 and the
\* space that delimits each.
RECURSIVE Rendered(_, _)
Rendered(s, i) ==
  IF i >= Len(s) THEN << >>
  ELSE IF StartsWithAt(s, cwBoldOff, i)
    THEN Rendered(s, i + 3 + (IF At(s, i + 3) = chSpace THEN 1 ELSE 0))
  ELSE IF StartsWithAt(s, cwBold, i)
    THEN Rendered(s, i + 2 + (IF At(s, i + 2) = chSpace THEN 1 ELSE 0))
  ELSE <<At(s, i)>> \o Rendered(s, i + 1)

\* Every \b0 and every \b of s is followed by one space and then a
\* character that is no space; AtEnd says whether a control word that ends
\* s may go without.
OneSpaceAfterEach(s, AtEnd) ==
  \A i \in 0..(Len(s) - 1) :
    /\ StartsWithAt(s, cwBoldOff, i) =>
         \/ At(s, i + 3) = chSpace /\ At(s, i + 4) \notin {chSpace, -1}
         \/ AtEnd /\ i + 3 = Len(s)
    /\ (StartsWithAt(s, cwBold, i) /\ At(s, i + 2) # chZero) =>
         \/ At(s, i + 2) = chSpace /\ At(s, i + 3) \notin {chSpace, -1}
         \/ AtEnd /\ i + 2 = Len(s)

\* The space line 359 puts between a word that ends in punctuation and \b0.
GapAfter(word) == IF word[Len(word)] \in Punctuation THEN <<chSpace>> ELSE << >>

\* What C11 says of the body and of the escaped text of a scenario; AsCoded
\* says whether the two exceptions of the amended claim are allowed.
BoldWordKept(sc, AsCoded) ==
  /\ pc \in {"bodied", "reemitted"} =>
       /\ MarkersOf(body, 0) = <<TRUE, FALSE>>
       /\ Contains(body, B_ON \o sc.word \o B_OFF)
  /\ pc = "reemitted" =>
       /\ Contains(escaped, cwBoldSp \o sc.word
                              \o (IF AsCoded THEN GapAfter(sc.word) ELSE << >>) \o cwBoldOff)
       /\ OneSpaceAfterEach(escaped, AsCoded)
       /\ PunctSpaces(Rendered(escaped, 0)) >= PunctSpaces(Visible(body, 0))

\* C11 as stated: one [[B_ON]] right before the word and one [[B_OFF]] right
\* after it in the body; in the escaped text \b and \b0 next to the word,
\* each followed by exactly one space, and no space after punctuation lost.
C11_BoldWordOneSpace ==
  \A sc \in BoldScenarios : fragment = BoldFragment(sc) => BoldWordKept(sc, FALSE)

\* C11, amended: the same, except that a \b0 that ends the escaped text has
\* no space after it (the final trim of line 361 takes it), and that a word
\* ending in one of , . ; : ! ? is followed by a space and then \b0 (line 359).
C11_BoldWordOneSpaceButAtEnd ==
  \A sc \in BoldScenarios : fragment = BoldFragment(sc) => BoldWordKept(sc, TRUE)

\* C11's case: 'a. \b it.\b0  x' and 'a,\b w\b0 , x' have been escaped.
C11_Witness ==
  /\ pc = "reemitted"
  /\ fragment = Str(<<"a", ".", " ", "\\", "b", " ", "i", "t", ".", "\\", "b", "0", " ", " ", "x">>)
  /\ escaped = Str(<<"a", ".", " ", "\\", "b", " ", "i", "t", ".", " ", "\\", "b", "0", " ", "x">>)

\* C17: a control word other than \b leaves nothing in the output and does
\* not change the bold state: the body is that of the fragment without the
\* control word, its parameter and its delimiting space.
C17_OtherWordsDiscarded ==
  \A sc \in WordScenarios :
    (pc = "bodied" /\ fragment = WordFragment(sc)) =>
      body = sanitizeRtfFragment(sc.pre \o sc.post)

(***************************************************************************)
(* decodeUnicode                                                           *)
(***************************************************************************)

MaxCode == 65540     \* the code points run from -MaxCode to MaxCode

DecodeInit ==
  /\ pc = "code"
  /\ code \in (0 - MaxCode)..MaxCode
  /\ decoded = NoText
  /\ normIn = << >> /\ normKind = "" /\ normOut = << >> /\ paras = << >>
  /\ RunIdle /\ SanIdle /\ CleanIdle /\ EscIdle /\ LabelIdle /\ BatchIdle

fnOther == <<runVars, sanVars, cleanVars, escVars, labelVars, batchVars>>

\* out += decodeUnicode(code)
Decode ==
  /\ pc = "code"
  /\ decoded' = decodeUnicode(code)
  /\ pc' = "decoded"
  /\ UNCHANGED <<code, normIn, normKind, normOut, paras, fnOther>>

DecodeNext ==
  \/ Decode

SpecDecode == DecodeInit /\ [][DecodeNext]_vars

\* C12: 65536 is added to a negative n; then 8220 and 8221 give '"', 8216
\* and 8217 give "'", 8211 and 8212 give '-', a value in [0,128) gives its
\* ASCII character, every other value gives the empty string.
C12_DecodeUnicodeTable ==
  pc = "decoded" =>
    LET n == IF code < 0 THEN code + 65536 ELSE code
    IN  decoded = CASE n = 8220 \/ n = 8221 -> Str(<<"\"">>)
                    [] n = 8216 \/ n = 8217 -> Str(<<"'">>)
                    [] n = 8211 \/ n = 8212 -> Str(<<"-">>)
                    [] n >= 0 /\ n < 128    -> <<n>>
                    [] OTHER                -> << >>

\* C12's case: -57319, which is 8217 as a signed 16-bit value, gives "'".
C12_Witness ==
  /\ pc = "decoded"
  /\ code = 0 - 57319
  /\ decoded = Str(<<"'">>)

(***************************************************************************)
(* Whitespace normalization, applied once and again                        *)
(***************************************************************************)

MaxNormChars == 5     \* characters of a text to normalize

\* space, tab, line feed, ',', 'a', a control character (0x80) and the
\* no-break space (0xA0)
NormChars == {chSpace, 9, 10, Ord(","), Ord("a"), 128, 160}

NormTexts == UNION {[1..n -> NormChars] : n \in 0..MaxNormChars}

\* out.replace(/[ ]{2,}/g, ' ').trim()
CollapseTrim(s) == Trim(CollapseSpaces(s))

NormInit ==
  /\ pc = "norm"
  /\ normIn \in NormTexts
  /\ normKind \in {"post", "collapse"}
  /\ normOut = << >>
  /\ code = 0 /\ decoded = NoText /\ paras = << >>
  /\ RunIdle /\ SanIdle /\ CleanIdle /\ EscIdle /\ LabelIdle /\ BatchIdle

\* Lines 159-164 on a text
PostPassOnce ==
  /\ pc = "norm" /\ normKind = "post"
  /\ normOut' = <<SanPostPass(normIn)>>
  /\ pc' = "once"
  /\ UNCHANGED <<code, decoded, normIn, normKind, paras, fnOther>>

\* Lines 159-164 on their own result
PostPassAgain ==
  /\ pc = "once" /\ normKind = "post"
  /\ normOut' = Append(normOut, SanPostPass(normOut[1]))
  /\ pc' = "twice"
  /\ UNCHANGED <<code, decoded, normIn, normKind, paras, fnOther>>

\* Line 350 on a text
CollapseOnce ==
  /\ pc = "norm" /\ normKind = "collapse"
  /\ normOut' = <<CollapseTrim(normIn)>>
  /\ pc' = "once"
  /\ UNCHANGED <<code, decoded, normIn, normKind, paras, fnOther>>

\* Line 361 on the result of line 350
CollapseAgain ==
  /\ pc = "once" /\ normKind = "collapse"
  /\ normOut' = Append(normOut, CollapseTrim(normOut[1]))
  /\ pc' = "twice"
  /\ UNCHANGED <<code, decoded, normIn, normKind, paras, fnOther>>

NormNext ==
  \/ PostPassOnce
  \/ PostPassAgain
  \/ CollapseOnce
  \/ CollapseAgain

SpecNorm == NormInit /\ [][NormNext]_vars

\* C13: the sanitizer's post-pass applied twice gives what it gives applied
\* once, and so does the collapse-and-trim step of escapeRtfText.
C13_NormalizationIdempotent ==
  pc = "twice" => normOut[2] = normOut[1]

\* C13's case: the post-pass has been applied twice to 'a <0x80> ,', which
\* it changes to 'a,'.
C13_Witness ==
  /\ pc = "twice"
  /\ normKind = "post"
  /\ normIn = <<Ord("a"), chSpace, 128, chSpace, Ord(",")>>
  /\ normOut = <<Str(<<"a", ",">>), Str(<<"a", ",">>)>>

(***************************************************************************)
(* One paragraph with an unrecognized marker-holder group                  *)
(***************************************************************************)

\* What comes before the group, what the group holds after \listtext (no
\* bullet, no digits or letter followed by '.' and \tab), what follows it.
OddLeads == { << >>,
              Str(<<"\\", "p", "a", "r", "d", " ">>),                           \* \pard
              Str(<<"x", " ">>),                                                \* x
              kwInsrsid \o Str(<<"1", "2", " ">>) }                             \* \insrsid12
OddContents == { kwTab,                                                         \* \tab
                 Str(<<" ", "(", "i", ")">>) \o kwTab,                          \* (i)\tab
                 Str(<<" ", "1", ")">>) \o kwTab,                               \* 1)\tab
                 Str(<<" ", "-">>) \o kwTab,                                    \* -\tab
                 Str(<<"\\", "u", "8", "2", "1", "1", "?">>) \o kwTab,          \* \u8211?\tab
                 Str(<<" ", "1", ".">>),                                        \* 1.
                 Str(<<"\\", "'", "a", "7">>) \o kwTab }                        \* \'a7\tab
OddTails == { << >>, <<chSpace>>, Str(<<"I", "t", "e", "m">>),
              Str(<<"{", "\\", "b", " ", "x", "}">>) }

OddParas ==
  {lead \o kwListtextOpen \o content \o <<chClose>> \o tail :
     lead \in OddLeads, content \in OddContents, tail \in OddTails}

ParaInit ==
  /\ pc = "apara"
  /\ para \in OddParas
  /\ entries = << >>
  /\ args = [in |-> "", out |-> "", caps |-> FALSE]
  /\ styleRows = << >> /\ headerLines = << >> /\ style = << >>
  /\ rtf = NoText /\ out = << >> /\ outFile = NoText /\ exitCode = -1
  /\ fragment = << >> /\ st = SanStart /\ body = NoText /\ prefixed = FALSE /\ lit = FALSE
  /\ CleanIdle /\ EscIdle /\ LabelIdle /\ BatchIdle /\ FnIdle

\* One turn of the for loop of lines 311-338
ExtractPara ==
  /\ pc = "apara"
  /\ entries' = entries \o ParaEntries(para)
  /\ pc' = "entered"
  /\ UNCHANGED <<args, styleRows, headerLines, style, rtf, out, outFile, exitCode,
                 sanVars, cleanVars, escVars, labelVars, batchVars, fnVars>>

ParaNext ==
  \/ ExtractPara

SpecPara == ParaInit /\ [][ParaNext]_vars

\* C14: a paragraph whose marker-holder group matches none of the bullet,
\* ordered-numeric and ordered-alpha patterns contributes no entry.
C14_UnrecognizedGroupSkipped ==
  pc = "entered" => entries = << >>

(***************************************************************************)
(* splitParagraphs on its own                                              *)
(***************************************************************************)

MaxSplitPieces == 4

SplitPieces ==
  { kwPar, Str(<<"\\", "p", "a">>), Str(<<"\\">>), Str(<<"d">>), Str(<<"D">>),
    Str(<<"1">>), Str(<<" ">>), <<chOpen>> }

RECURSIVE SplitTextsOfLen(_)
SplitTextsOfLen(n) ==
  IF n = 0 THEN {<< >>}
  ELSE {t \o q : t \in SplitTextsOfLen(n - 1), q \in SplitPieces}

SplitTexts == UNION {SplitTextsOfLen(n) : n \in 0..MaxSplitPieces}

SplitInit ==
  /\ pc = "tosplit"
  /\ cleaned \in SplitTexts
  /\ src = << >> /\ noStarGroups = NoText
  /\ paras = << >>
  /\ code = 0 /\ decoded = NoText /\ normIn = << >> /\ normKind = "" /\ normOut = << >>
  /\ RunIdle /\ SanIdle /\ EscIdle /\ LabelIdle /\ BatchIdle

\* const paras = splitParagraphs(cleaned)
Split ==
  /\ pc = "tosplit"
  /\ paras' = splitParagraphs(cleaned)
  /\ pc' = "split"
  /\ UNCHANGED <<runVars, sanVars, cleanVars, escVars, labelVars, batchVars,
                 code, decoded, normIn, normKind, normOut>>

SplitNext ==
  \/ Split

SpecSplit == SplitInit /\ [][SplitNext]_vars

\* The markers of s: the 0-based places where \par stands and the character
\* after it, if there is one, is not a letter.
Markers(s) ==
  {i \in 0..(Len(s) - 4) :
     /\ SubSeq(s, i + 1, i + 4) = kwPar
     /\ (i + 4 < Len(s) => s[i + 5] \notin ((65..90) \cup (97..122)))}

\* The k-th marker of s, from the left.
MarkerNo(s, k) ==
  CHOOSE i \in Markers(s) : Cardinality({j \in Markers(s) : j < i}) = k - 1

\* Where the text after the last marker of s begins (0-based).
AfterLastMarker(s) ==
  IF Markers(s) = {} THEN 0 ELSE MarkerNo(s, Cardinality(Markers(s))) + 4

\* The fragments joined with \par.
RECURSIVE JoinPar(_)
JoinPar(frs) ==
  IF frs = << >> THEN << >>
  ELSE IF Len(frs) = 1 THEN frs[1]
  ELSE frs[1] \o kwPar \o JoinPar(Tail(frs))

\* C19: splitParagraphs splits at the markers only: fragment k is the text
\* between marker k-1 and marker k, no fragment holds a marker, there is one
\* more fragment exactly when non-empty text follows the last marker, and the
\* fragments joined with \par give the input back, up to a final marker.
C19_SplitAtParOnly ==
  pc = "split" =>
    LET n     == Cardinality(Markers(cleaned))
        after == AfterLastMarker(cleaned)
        more  == after < Len(cleaned)
    IN  /\ Len(paras) = n + (IF more THEN 1 ELSE 0)
        /\ \A k \in 1..n :
             paras[k] = SubSeq(cleaned,
                               (IF k = 1 THEN 0 ELSE MarkerNo(cleaned, k - 1) + 4) + 1,
                               MarkerNo(cleaned, k))
        /\ more => paras[n + 1] = SubSeq(cleaned, after + 1, Len(cleaned))
        /\ \A k \in 1..Len(paras) : Markers(paras[k]) = {}
        /\ \/ cleaned = JoinPar(paras)
           \/ cleaned = JoinPar(paras) \o kwPar

\* C19's case: \pard does not split, \par before a digit does, and the text
\* after it is the trailing fragment.
C19_Witness ==
  /\ pc = "split"
  /\ cleaned = kwPar \o Str(<<"d">>) \o kwPar \o Str(<<"1">>)
  /\ paras = <<kwPar \o Str(<<"d">>), Str(<<"1">>)>>

=============================================================================
